---- MODULE Spec2Model ----
(***************************************************************************)
(* steam-locate: root resolution (steam-path.ts), library-folder discovery *)
(* (steam-libraries.ts), manifest lookup and inventory (steam-apps.ts) and *)
(* the public operations that compose them (index.ts).                     *)
(*                                                                         *)
(* A path is a sequence of segments: <<"C:", "Steam", "steamapps">>.  An   *)
(* empty segment "" stands for a doubled separator, "." and ".." are the   *)
(* usual relative segments.  The filesystem is the set of normalized paths *)
(* that exist; on win32 a path names an entry whatever its letter case.    *)
(***************************************************************************)
EXTENDS Integers, Sequences, FiniteSets, TLC

VARIABLES
    platform,   \* os.platform() of the host
    env,        \* process.env: LOCALAPPDATA, APPDATA, SNAP_USER_DATA (<<>> = unset)
    fs,         \* set of paths for which existsSync is true
    regOut,     \* outcome of the "reg query" command
    whichOut,   \* outcome a "which steam" command would have
    homedirOut, \* outcome of os.homedir(): "ok" or "throw"
    form,       \* form of the public operation that is called: "sync" or "async"
    pc,         \* position of the running call
    idx,        \* loop index of the running probe loop
    steamPath,  \* local steamPath of findSteamLocation
    log,        \* probes and external commands issued so far, in order
    result,     \* what the call returned or threw
    vdf,        \* libraryfolders.vdf of the root: readable flag and "path" values
    root,       \* steamPath argument of the library / app operations
    folders,    \* libraryFolders accumulator / last returned list
    prevFolders,\* list returned by the previous getLibraryFoldersSync call
    calls,      \* number of completed calls
    manifests,  \* manifest files: <<folder, appId>> -> manifest record
    listing,    \* readdirSync result per library folder
    appId,      \* appId argument of findSteamApp
    apps,       \* records returned by findSteamApp / getInstalledSteamApps
    caller      \* the public operation that is running

vars == <<platform, env, fs, regOut, whichOut, homedirOut, form, pc, idx, steamPath, log, result,
          vdf, root, folders, prevFolders, calls, manifests, listing, appId, apps, caller>>

rootVars == <<platform, env, fs, regOut, whichOut, homedirOut, form>>
libVars  == <<vdf, root, folders, prevFolders, calls>>
appVars  == <<manifests, listing, appId, apps>>
callVars == <<appVars, caller>>

----------------------------------------------------------------------------
(* path module *)

RECURSIVE NormalizeFrom(_, _)
NormalizeFrom(acc, rest) ==
    IF rest = <<>> THEN acc
    ELSE LET s == Head(rest) IN
         IF s = "" \/ s = "." THEN NormalizeFrom(acc, Tail(rest))
         ELSE IF s = ".." /\ Len(acc) > 1 /\ acc[Len(acc)] # ".."
              THEN NormalizeFrom(SubSeq(acc, 1, Len(acc) - 1), Tail(rest))
         ELSE IF s = ".." /\ Len(acc) = 1
              THEN NormalizeFrom(acc, Tail(rest))
         ELSE NormalizeFrom(Append(acc, s), Tail(rest))

\* path.normalize: collapses doubled separators and "." segments, resolves ".."
normalize(p) == IF p = <<>> THEN <<".">> ELSE NormalizeFrom(<<Head(p)>>, Tail(p))

\* path.join: concatenates and normalizes
join(a, b) == normalize(a \o b)

Cwd == <<"C:", "cwd">>

\* path.resolve(base, name): an empty base resolves against the working directory
resolve(base, name) == IF base = <<>> THEN normalize(Cwd \o name) ELSE normalize(base \o name)

\* String.prototype.toLowerCase on one segment
Lower(x) ==
    CASE x = "C:" -> "c:"
      [] x = "D:" -> "d:"
      [] x = "E:" -> "e:"
      [] x = "Program Files (x86)" -> "program files (x86)"
      [] x = "Program Files" -> "program files"
      [] x = "Steam" -> "steam"
      [] x = "Lib" -> "lib"
      [] x = "Gone" -> "gone"
      [] x = "Users" -> "users"
      [] x = "AppData" -> "appdata"
      [] x = "Local" -> "local"
      [] x = "Roaming" -> "roaming"
      [] x = "Team Fortress 2" -> "team fortress 2"
      [] x = "SizeOnDisk" -> "sizeondisk"
      [] OTHER -> x

\* the form under which the filesystem compares names: Windows ignores letter case
FsKey(p) == IF platform = "win32" THEN [i \in DOMAIN p |-> Lower(p[i])] ELSE p

\* p names an entry of the filesystem
OnDisk(p) == p \in fs \/ (platform = "win32" /\ \E q \in fs : FsKey(q) = FsKey(p))

\* the entry of S that p names
Stored(p, S) == IF p \in S THEN p ELSE CHOOSE q \in S : FsKey(q) = FsKey(p)

existsSync(p) == OnDisk(p)

----------------------------------------------------------------------------
(* errors.ts *)

NoPath == <<>>
NoPlatform == "undefined"
Undefined == "<undefined>"

\* a result: the SteamLocation returned, or the error thrown.  The thrown* fields are
\* history: the error as it reached the catch block of the public operation.
Outcome(k, plat, message) ==
    [kind |-> k, path |-> NoPath, platform |-> plat, msg |-> message,
     isRunning |-> FALSE, version |-> Undefined, libraryFolders |-> <<>>,
     thrownKind |-> "none", thrownPlatform |-> NoPlatform, thrownMsg |-> <<>>]

Pending == Outcome("pending", NoPlatform, <<>>)

SteamNotFoundError(message, plat) == Outcome("SteamNotFoundError", plat, message)

\* the message defaults to the one that names the appId; the appId is not kept
SteamAppNotFoundError(id, message) ==
    Outcome("SteamAppNotFoundError", NoPlatform,
            IF message = <<>> THEN <<"Steam app with ID ", id, " not found">> ELSE message)

\* a call that returned a list or a record (kept in folders / apps)
Returned == Outcome("returned", NoPlatform, <<>>)

----------------------------------------------------------------------------
(* log of existence probes and external commands *)

\* cand is the position of the probed candidate in its strategy's list (0 for a
\* command), what tells a directory probe from a launcher probe
Probe(p, strat, k, w) ==
    [op |-> "exists", cmd |-> "", path |-> p, strat |-> strat, cand |-> k, what |-> w,
     out |-> [status |-> "", text |-> ""]]
Exec(c, strat) ==
    [op |-> "exec", cmd |-> c, path |-> NoPath, strat |-> strat, cand |-> 0, what |-> "cmd",
     out |-> [status |-> "", text |-> ""]]

\* a command or a file read that threw
Threw == [status |-> "throw", text |-> ""]

\* a command of the process or version query with its outcome (history)
ExecOut(c, strat, o) == [Exec(c, strat) EXCEPT !.out = o]

\* readFileSync of path with its outcome (history)
Read(p, strat, o) ==
    [op |-> "read", cmd |-> "", path |-> p, strat |-> strat, cand |-> 0, what |-> "file",
     out |-> o]

----------------------------------------------------------------------------
(* steam-path.ts: candidates *)

Home == <<"/", "home", "user">>

PF86 == <<"C:", "Program Files (x86)", "Steam">>
PF   == <<"C:", "Program Files", "Steam">>
LocalAppData == <<"C:", "Users", "u", "AppData", "Local">>
AppData      == <<"C:", "Users", "u", "AppData", "Roaming">>
RegDir == <<"D:", "Steam">>

\* mutant: the two Program Files paths are probed in the other order
commonPaths_swapped ==
    << PF,
       PF86,
       resolve(env.LOCALAPPDATA, <<"Steam">>),
       resolve(env.APPDATA, <<"Steam">>) >>

commonPaths ==
    << PF86,
       PF,
       resolve(env.LOCALAPPDATA, <<"Steam">>),
       resolve(env.APPDATA, <<"Steam">>) >>

MacSteamPath == resolve(Home, <<"Library", "Application Support", "Steam">>)
MacBundle == <<"/", "Applications", "Steam.app", "Contents", "MacOS">>

snapDir == IF env.SNAP_USER_DATA # <<>> THEN normalize(env.SNAP_USER_DATA)
           ELSE resolve(Home, <<"snap">>)

FlatpakDir == <<".var", "app", "com.valvesoftware.Steam">>

candidatePaths ==
    << resolve(Home, FlatpakDir \o <<".local", "share", "Steam">>),
       resolve(Home, FlatpakDir \o <<".steam", "steam">>),
       resolve(Home, FlatpakDir \o <<".steam", "root">>),
       resolve(Home, <<".local", "share", "Steam">>),
       resolve(Home, <<".steam", "steam">>),
       resolve(Home, <<".steam", "root">>),
       resolve(Home, <<".steam", "debian-installation">>),
       resolve(snapDir, <<"steam", "common", ".local", "share", "Steam">>),
       resolve(snapDir, <<"steam", "common", ".steam", "steam">>),
       resolve(snapDir, <<"steam", "common", ".steam", "root">>) >>

UsrBinSteam == <<"/", "usr", "bin", "steam">>

----------------------------------------------------------------------------
(* environments the resolver can run in *)

Platforms == {"win32", "darwin", "linux", "aix", "freebsd"}

MaxPresent == 2

SteamExe == <<"steam.exe">>

Range(f) == { f[i] : i \in DOMAIN f }

WinEnvs == [LOCALAPPDATA : {<<>>, LocalAppData}, APPDATA : {<<>>, AppData},
            SNAP_USER_DATA : {<<>>}]

RegOutcomes == { [status |-> "throw", path |-> NoPath],
                 [status |-> "nomatch", path |-> NoPath],
                 [status |-> "value", path |-> PF86],
                 [status |-> "value", path |-> <<"D:", "", "Steam">>] }

NoReg == [status |-> "throw", path |-> NoPath]

WhichOutcomes == { [status |-> "throw", path |-> NoPath],
                   [status |-> "value", path |-> UsrBinSteam] }

SnapData == <<"/", "snapdata">>

PosixEnvs == [LOCALAPPDATA : {<<>>}, APPDATA : {<<>>}, SNAP_USER_DATA : {<<>>, SnapData}]

\* a directory with its launcher: the launcher exists only inside an existing directory
WinFs(dirs, exes) == dirs \cup { d \o SteamExe : d \in exes }

MacPaths == {MacSteamPath, MacBundle, MacBundle \o <<"Steam">>}

LinuxPaths == Range(candidatePaths) \cup {UsrBinSteam}

WinDirs == Range(commonPaths) \cup {normalize(RegDir)}

----------------------------------------------------------------------------
(* index.ts: findSteamLocation, root phase *)

\* mutant: the catch block wraps every error, also a SteamNotFoundError
findSteamLocation_catch_rewrap(error) ==
    SteamNotFoundError(<<"Failed to find Steam on ", platform, ": ">> \o error.msg, platform)

\* catch block of findSteamLocation: a SteamNotFoundError is rethrown unchanged
findSteamLocation_catch(error) ==
    IF error.kind = "SteamNotFoundError" THEN error
    ELSE SteamNotFoundError(<<"Failed to find Steam on ", platform, ": ">> \o error.msg, platform)

\* catch block of findSteamApp / findSteamAppSync
findSteamApp_catch(error) ==
    IF error.kind \in {"SteamAppNotFoundError", "SteamNotFoundError"} THEN error
    ELSE SteamAppNotFoundError(appId, <<"Error finding Steam app: ">> \o error.msg)

\* mutant: the message of the caught error is dropped
getInstalledSteamApps_catch_nomsg(error) ==
    IF error.kind = "SteamNotFoundError" THEN error
    ELSE SteamNotFoundError(<<"Error getting installed Steam apps">>, NoPlatform)

\* catch block of getInstalledSteamApps / getInstalledSteamAppsSync
getInstalledSteamApps_catch(error) ==
    IF error.kind = "SteamNotFoundError" THEN error
    ELSE SteamNotFoundError(<<"Error getting installed Steam apps: ">> \o error.msg, NoPlatform)

\* the catch block of the running public operation
Catch(error) ==
    LET rethrown == IF caller = "findSteamApp" THEN findSteamApp_catch(error)
                    ELSE IF caller = "getInstalledSteamApps"
                    THEN getInstalledSteamApps_catch(error)
                    ELSE findSteamLocation_catch(error)
    IN [rethrown EXCEPT !.thrownKind = error.kind,
                        !.thrownPlatform = error.platform,
                        !.thrownMsg = error.msg]

findSteamLocation ==
    /\ pc = "idle"
    /\ caller = "none"
    /\ caller' = "findSteamLocation"
    /\ pc' = "findSteamPathSync"
    /\ UNCHANGED <<rootVars, idx, steamPath, log, result, libVars, appVars>>

\* the error os.homedir() throws when the home directory cannot be determined
HomedirError ==
    Outcome("SystemError", NoPlatform,
            <<"A system error occurred: uv_os_homedir returned ENOENT (no such file or directory)">>)

\* switch (currentPlatform) of findSteamPathSync; the macOS and Linux resolvers start
\* by calling homedir(), whose error no resolver catches
findSteamPathSync ==
    /\ pc = "findSteamPathSync"
    /\ IF platform = "win32" THEN pc' = "registry" /\ UNCHANGED result
       ELSE IF platform \in {"darwin", "linux"} /\ homedirOut = "throw"
       THEN pc' = "done" /\ result' = Catch(HomedirError)
       ELSE IF platform = "darwin" THEN pc' = "macos" /\ UNCHANGED result
       ELSE IF platform = "linux" THEN pc' = "linux" /\ UNCHANGED result
       ELSE /\ pc' = "done"
            /\ result' = Catch(
                   SteamNotFoundError(<<"Unsupported platform: ", platform>>, platform))
    /\ idx' = 1
    /\ UNCHANGED <<rootVars, steamPath, log, libVars, callVars>>

\* the two existence checks of a Windows candidate, the second only after the first
WinProbes(p, strat, k) ==
    IF existsSync(p)
    THEN <<Probe(p, strat, k, "dir"), Probe(resolve(p, SteamExe), strat, k, "exe")>>
    ELSE <<Probe(p, strat, k, "dir")>>

WinVerified(p) == existsSync(p) /\ existsSync(resolve(p, SteamExe))

\* mutant: the registry block does not return the verified path
findSteamPathWindows_registry_noreturn ==
    /\ pc = "registry"
    /\ IF regOut.status = "value"
       THEN log' = log \o <<Exec("reg query", "registry")>>
                       \o WinProbes(normalize(regOut.path), "registry", 0)
       ELSE log' = Append(log, Exec("reg query", "registry"))
    /\ pc' = "common"
    /\ UNCHANGED <<rootVars, idx, steamPath, result, libVars, callVars>>

\* registry block of findSteamPathWindows
findSteamPathWindows_registry ==
    /\ pc = "registry"
    /\ IF regOut.status = "value"
       THEN LET p == normalize(regOut.path) IN
            /\ log' = log \o <<Exec("reg query", "registry")>> \o WinProbes(p, "registry", 0)
            /\ IF WinVerified(p)
               THEN pc' = "resolved" /\ steamPath' = p
               ELSE pc' = "common" /\ UNCHANGED steamPath
       ELSE /\ log' = Append(log, Exec("reg query", "registry"))
            /\ pc' = "common"
            /\ UNCHANGED steamPath
    /\ UNCHANGED <<rootVars, idx, result, libVars, callVars>>

\* one iteration of the commonPaths loop of findSteamPathWindows
findSteamPathWindows_common ==
    /\ pc = "common"
    /\ idx <= Len(commonPaths)
    /\ LET p == normalize(commonPaths[idx]) IN
       /\ log' = log \o WinProbes(p, "common", idx)
       /\ IF WinVerified(p)
          THEN pc' = "resolved" /\ steamPath' = p /\ UNCHANGED idx
          ELSE idx' = idx + 1 /\ UNCHANGED <<pc, steamPath>>
    /\ UNCHANGED <<rootVars, result, libVars, callVars>>

findSteamPathWindows_throw ==
    /\ pc = "common"
    /\ idx > Len(commonPaths)
    /\ pc' = "done"
    /\ result' = Catch(
           SteamNotFoundError(<<"Could not locate Steam installation on Windows">>, NoPlatform))
    /\ UNCHANGED <<rootVars, idx, steamPath, log, libVars, callVars>>

findSteamPathMacOS ==
    /\ pc = "macos"
    /\ log' = Append(log, Probe(MacSteamPath, "macos", 1, "dir"))
    /\ IF existsSync(MacSteamPath)
       THEN pc' = "resolved" /\ steamPath' = MacSteamPath /\ UNCHANGED result
       ELSE /\ pc' = "done"
            /\ result' = Catch(
                   SteamNotFoundError(<<"Could not locate Steam installation on macOS">>, NoPlatform))
            /\ UNCHANGED steamPath
    /\ UNCHANGED <<rootVars, idx, libVars, callVars>>

\* the seen set of findSteamPathLinux is empty whenever it is consulted: the loop
\* returns right after the only statement that adds to it
seen == {}

\* one iteration of the candidatePaths loop of findSteamPathLinux
findSteamPathLinux_probe ==
    /\ pc = "linux"
    /\ idx <= Len(candidatePaths)
    /\ LET p == candidatePaths[idx] IN
       /\ log' = Append(log, Probe(p, "linux", idx, "dir"))
       /\ IF p \notin seen /\ existsSync(p)
          THEN pc' = "resolved" /\ steamPath' = p /\ UNCHANGED idx
          ELSE idx' = idx + 1 /\ UNCHANGED <<pc, steamPath>>
    /\ UNCHANGED <<rootVars, result, libVars, callVars>>

findSteamPathLinux_throw ==
    /\ pc = "linux"
    /\ idx > Len(candidatePaths)
    /\ pc' = "done"
    /\ result' = Catch(
           SteamNotFoundError(<<"Could not locate Steam installation on Linux">>, NoPlatform))
    /\ UNCHANGED <<rootVars, idx, steamPath, log, libVars, callVars>>

----------------------------------------------------------------------------
(* steam-libraries.ts: getLibraryFoldersSync *)

MaxVdfPaths == 2
MaxCalls == 3

SteamRoot == PF86
LibRoot == <<"D:", "Lib">>
GoneRoot == <<"E:", "Gone">>

\* a steamPath argument that is not a string: path.join throws a TypeError on it
NotAString == <<"<not a string>">>

Steamapps == <<"steamapps">>
VdfFile(r) == join(r, <<"steamapps", "libraryfolders.vdf">>)

\* steamPath arguments: a root, the same root with a trailing separator, a second
\* root, and a value that is not a string
RootArgs == {SteamRoot, SteamRoot \o <<"">>, LibRoot, NotAString}

\* raw "path" values of libraryfolders.vdf: the root itself, a library, the same
\* library written with a doubled separator, and a library that may be gone
VdfValues == {SteamRoot, LibRoot, <<"D:", "", "Lib">>, GoneRoot}

RECURSIVE SeqsUpTo(_, _)
SeqsUpTo(S, n) ==
    IF n = 0 THEN {<<>>}
    ELSE LET shorter == SeqsUpTo(S, n - 1)
         IN shorter \cup { Append(q, x) : q \in { t \in shorter : Len(t) = n - 1 }, x \in S }

Includes(list, p) == \E i \in DOMAIN list : list[i] = p

\* mutant: the accumulator outlives the call, as a module-level array would
NewLibraryFolders_kept == folders

\* const libraryFolders: string[] = []
NewLibraryFolders == <<>>

\* mutant: a declared path is pushed without looking for it in the list
ShouldPush_nodedup(list, p) == existsSync(p)

\* existsSync(libraryPath) && !libraryFolders.includes(libraryPath)
ShouldPush(list, p) == existsSync(p) /\ ~Includes(list, p)

\* mutant: no inner try around the read, the outer catch returns the empty list
VdfReadFailed_outer(list) == <<>>

\* inner catch of getLibraryFoldersSync: the list built so far is kept
VdfReadFailed(list) == list

\* the declared library path of a raw "path" value
libraryPath(raw) == normalize(join(raw, Steamapps))

RECURSIVE pushPathMatches(_, _)
\* the loop over pathMatches
pushPathMatches(list, paths) ==
    IF paths = <<>> THEN list
    ELSE LET p == libraryPath(Head(paths)) IN
         pushPathMatches(IF ShouldPush(list, p) THEN Append(list, p) ELSE list, Tail(paths))

\* body of getLibraryFoldersSync on the accumulator acc; a TypeError of
\* join(steamPath, 'steamapps') lands in the outer catch, which returns []
getLibraryFoldersFrom(acc, path) ==
    IF path = NotAString THEN <<>>
    ELSE LET mainAppsFolder == join(path, Steamapps)
             withMain == IF existsSync(mainAppsFolder)
                         THEN Append(acc, normalize(mainAppsFolder))
                         ELSE acc
         IN IF ~existsSync(VdfFile(path)) THEN withMain
            ELSE IF ~vdf.readable THEN VdfReadFailed(withMain)
            ELSE pushPathMatches(withMain, vdf.paths)

getLibraryFoldersSync(path) == getLibraryFoldersFrom(NewLibraryFolders, path)

----------------------------------------------------------------------------
(* steam-process.ts: isSteamRunningSync *)

\* outputs of the process-list command
ProcTexts == {"\"steam.exe\",\"1234\",\"Console\",\"1\",\"123,456 K\"",
              "INFO: No tasks are running which match the specified criteria.",
              "1234\n5678", " \n", ""}

ProcOutcomes == {[status |-> "throw", text |-> ""]} \cup [status : {"ok"}, text : ProcTexts]

\* output.includes('steam.exe')
IncludesSteamExe(text) == text = "\"steam.exe\",\"1234\",\"Console\",\"1\",\"123,456 K\""

\* output.trim()
Trim(text) ==
    CASE text = " \n" -> ""
      [] text = "3.4.0.0\r\n" -> "3.4.0.0"
      [] text = "1.0.0\n" -> "1.0.0"
      [] OTHER -> text

ProcCommand ==
    CASE platform = "win32" -> "tasklist /FI \"IMAGENAME eq steam.exe\" /FO CSV /NH"
      [] platform = "darwin" -> "pgrep -f \"Steam.app\""
      [] platform = "linux" -> "pgrep -f steam"
      [] OTHER -> ""

\* mutant: the command is issued a second time after it failed
isSteamRunningSync_log_retry(out) ==
    IF ProcCommand = "" THEN <<>>
    ELSE IF out.status = "throw"
    THEN <<ExecOut(ProcCommand, "process", out), ExecOut(ProcCommand, "process", out)>>
    ELSE <<ExecOut(ProcCommand, "process", out)>>

\* the commands isSteamRunningSync runs: none on an unsupported platform
isSteamRunningSync_log(out) ==
    IF ProcCommand = "" THEN <<>> ELSE <<ExecOut(ProcCommand, "process", out)>>

\* mutant: a failed command counts as a running process
isSteamRunningSync_failopen(out) ==
    IF ProcCommand = "" THEN FALSE
    ELSE IF out.status = "throw" THEN TRUE
    ELSE IF platform = "win32" THEN IncludesSteamExe(out.text)
    ELSE Trim(out.text) # ""

\* out is the outcome of the command
isSteamRunningSync(out) ==
    IF ProcCommand = "" THEN FALSE
    ELSE IF out.status = "throw" THEN FALSE
    ELSE IF platform = "win32" THEN IncludesSteamExe(out.text)
    ELSE Trim(out.text) # ""

\* the command of the asynchronous isSteamRunning, issued inside the promise executor
isSteamRunning_command ==
    CASE platform = "win32" -> "tasklist /FI \"IMAGENAME eq steam.exe\" /FO CSV /NH"
      [] platform = "darwin" -> "pgrep -f \"Steam.app\""
      [] platform = "linux" -> "pgrep -f steam"
      [] OTHER -> ""

isSteamRunning_log(out) ==
    IF isSteamRunning_command = "" THEN <<>>
    ELSE <<ExecOut(isSteamRunning_command, "process", out)>>

\* mutant: the asynchronous form tests the trimmed output on every platform
isSteamRunning_trimmed(out) ==
    IF isSteamRunning_command = "" THEN FALSE
    ELSE IF out.status = "throw" THEN FALSE
    ELSE Trim(out.text) # ""

\* the value the promise of isSteamRunning resolves to
isSteamRunning(out) ==
    IF isSteamRunning_command = "" THEN FALSE
    ELSE IF out.status = "throw" THEN FALSE
    ELSE IF platform = "win32" THEN IncludesSteamExe(out.text)
    ELSE Trim(out.text) # ""

----------------------------------------------------------------------------
(* steam-version.ts: getSteamVersionSync *)

VersionTexts == {"3.4.0.0\r\n", "1.0.0\n", " \n", ""}

\* outcome of the powershell command or of reading a version file
ReadOutcomes == {[status |-> "throw", text |-> ""]} \cup [status : {"ok"}, text : VersionTexts]

versionPaths(path) ==
    << join(path, <<"package", "steam_client_win32">>),
       join(path, <<"steam_client_win32">>),
       join(path, <<"version.txt">>),
       join(path, <<"package", "version.txt">>) >>

\* the powershell query is run on Windows when steam.exe exists under the root
RunsPowershell(path) == platform = "win32" /\ existsSync(join(path, SteamExe))

RECURSIVE VersionFileReads(_, _, _)
\* the reads of the loop over versionPaths from position i; the loop ends with the
\* first file that gives a non-empty text
VersionFileReads(paths, reads, i) ==
    IF i > Len(paths) THEN <<>>
    ELSE IF ~existsSync(paths[i]) THEN VersionFileReads(paths, reads, i + 1)
    ELSE IF reads[i].status = "ok" /\ Trim(reads[i].text) # ""
         THEN <<Read(paths[i], "version", reads[i])>>
         ELSE <<Read(paths[i], "version", reads[i])>> \o VersionFileReads(paths, reads, i + 1)

\* the command and the file reads of getSteamVersionSync
getSteamVersionSync_log(path, ps, reads) ==
    IF RunsPowershell(path) /\ ps.status = "ok"
    THEN <<ExecOut("powershell Get-Item VersionInfo.FileVersion", "version", ps)>>
    ELSE (IF RunsPowershell(path)
          THEN <<ExecOut("powershell Get-Item VersionInfo.FileVersion", "version", ps)>>
          ELSE <<>>) \o VersionFileReads(versionPaths(path), reads, 1)

RECURSIVE FirstVersionFile(_, _, _)
\* the loop over versionPaths from position i; reads[i] is the outcome of reading file i
FirstVersionFile(paths, reads, i) ==
    IF i > Len(paths) THEN Undefined
    ELSE IF existsSync(paths[i]) /\ reads[i].status = "ok" /\ Trim(reads[i].text) # ""
         THEN Trim(reads[i].text)
         ELSE FirstVersionFile(paths, reads, i + 1)

\* mutant: the powershell query has no try of its own, and its output is the version
\* whether or not the command failed
getSteamVersionSync_nofallback(path, ps, reads) ==
    IF RunsPowershell(path) THEN Trim(ps.text)
    ELSE FirstVersionFile(versionPaths(path), reads, 1)

\* ps is the outcome of the powershell query, reads those of the file reads
getSteamVersionSync(path, ps, reads) ==
    IF RunsPowershell(path) /\ ps.status = "ok" THEN Trim(ps.text)
    ELSE FirstVersionFile(versionPaths(path), reads, 1)

----------------------------------------------------------------------------
(* index.ts: findSteamLocation after the root is resolved *)

\* the outcomes of the reads of the version files: only a file that exists is read
VersionReads(path) ==
    LET present == { i \in 1..4 : existsSync(versionPaths(path)[i]) }
    IN { [i \in 1..4 |-> IF i \in present THEN r[i] ELSE Threw] : r \in [present -> ReadOutcomes] }

\* the outcomes of the process-list command, where one is run: tasklist prints a CSV
\* line or its INFO line, pgrep prints process ids or nothing
ProcRuns ==
    IF ProcCommand = "" THEN {Threw}
    ELSE { o \in ProcOutcomes :
             \/ o.status = "throw"
             \/ platform = "win32" /\ o.text \in
                   {"\"steam.exe\",\"1234\",\"Console\",\"1\",\"123,456 K\"",
                    "INFO: No tasks are running which match the specified criteria."}
             \/ platform # "win32" /\ o.text \in {"1234\n5678", " \n", ""} }

\* the outcomes of the powershell query, where one is run
PowershellRuns(path) == IF RunsPowershell(path) THEN ReadOutcomes ELSE {Threw}

\* getSteamVersion: the promise resolves to what getSteamVersionSync returns
getSteamVersion(path, ps, reads) == getSteamVersionSync(path, ps, reads)

\* getLibraryFolders: the promise resolves to what getLibraryFoldersSync returns
getLibraryFolders(path) == getLibraryFoldersSync(path)

\* steamPath as findSteamLocation reports and uses it after normalization
LocationPath == IF platform = "win32" THEN normalize(steamPath) ELSE steamPath

\* libraryFolders.map(p => normalize(p)) on Windows
LocationFolders(libraryFolders) ==
    IF platform = "win32"
    THEN [i \in DOMAIN libraryFolders |-> normalize(libraryFolders[i])]
    ELSE libraryFolders

\* the SteamLocation findSteamLocationSync returns
findSteamLocationSync_result(out, ps, reads) ==
    [Outcome("ok", platform, <<>>) EXCEPT
        !.path = LocationPath,
        !.isRunning = isSteamRunningSync(out),
        !.version = getSteamVersionSync(LocationPath, ps, reads),
        !.libraryFolders = LocationFolders(getLibraryFoldersSync(steamPath))]

\* the commands and reads of findSteamLocationSync after the root is resolved
findSteamLocationSync_log(out, ps, reads) ==
    isSteamRunningSync_log(out) \o getSteamVersionSync_log(LocationPath, ps, reads)

\* the SteamLocation the promise of findSteamLocation resolves to
findSteamLocation_result(out, ps, reads) ==
    [Outcome("ok", platform, <<>>) EXCEPT
        !.path = LocationPath,
        !.isRunning = isSteamRunning(out),
        !.version = getSteamVersion(LocationPath, ps, reads),
        !.libraryFolders = LocationFolders(getLibraryFolders(steamPath))]

\* the commands and reads of findSteamLocation after the root is resolved
findSteamLocation_log(out, ps, reads) ==
    isSteamRunning_log(out) \o getSteamVersionSync_log(LocationPath, ps, reads)

\* libraryFolders, isRunning and version are collected and the SteamLocation returned;
\* the log takes the command and reads of the two queries with their outcomes
findSteamLocation_return ==
    /\ pc = "resolved"
    /\ caller = "findSteamLocation"
    /\ pc' = "done"
    /\ \E out \in ProcRuns : \E ps \in PowershellRuns(LocationPath) :
       \E reads \in VersionReads(LocationPath) :
          IF form = "async"
          THEN /\ result' = findSteamLocation_result(out, ps, reads)
               /\ log' = log \o findSteamLocation_log(out, ps, reads)
          ELSE /\ result' = findSteamLocationSync_result(out, ps, reads)
               /\ log' = log \o findSteamLocationSync_log(out, ps, reads)
    /\ UNCHANGED <<rootVars, idx, steamPath, libVars, callVars>>

\* isSteamRunning / isSteamRunningSync called on its own
isSteamRunning_call ==
    /\ pc = "idle"
    /\ caller = "none"
    /\ caller' = "isSteamRunning"
    /\ pc' = "done"
    /\ \E out \in ProcRuns :
          IF form = "async"
          THEN /\ result' = [Returned EXCEPT !.isRunning = isSteamRunning(out)]
               /\ log' = log \o isSteamRunning_log(out)
          ELSE /\ result' = [Returned EXCEPT !.isRunning = isSteamRunningSync(out)]
               /\ log' = log \o isSteamRunningSync_log(out)
    /\ UNCHANGED <<rootVars, idx, steamPath, libVars, appVars>>

NoVdf == [readable |-> FALSE, paths |-> <<>>]

InitIdle ==
    /\ pc = "idle"
    /\ idx = 1
    /\ steamPath = NoPath
    /\ log = <<>>
    /\ result = Pending

InitNoLib ==
    /\ vdf = NoVdf
    /\ root = NoPath
    /\ folders = <<>>
    /\ prevFolders = [valid |-> FALSE, root |-> NoPath, list |-> <<>>]
    /\ calls = 0

InitNoApps ==
    /\ manifests = <<>>
    /\ listing = <<>>
    /\ appId = ""
    /\ apps = <<>>
    /\ caller = "none"

InitRoot ==
    /\ form = "sync"
    /\ platform \in Platforms
    /\ homedirOut \in (IF platform \in {"darwin", "linux"} THEN {"ok", "throw"} ELSE {"ok"})
    /\ whichOut \in (IF platform = "linux" THEN WhichOutcomes ELSE {NoReg})
    /\ regOut \in (IF platform = "win32" THEN RegOutcomes ELSE {NoReg})
    /\ env \in (IF platform = "win32" THEN WinEnvs ELSE
                IF platform = "linux" THEN PosixEnvs ELSE
                [LOCALAPPDATA : {<<>>}, APPDATA : {<<>>}, SNAP_USER_DATA : {<<>>}])
    /\ IF platform = "win32"
       THEN \E dirs \in SUBSET WinDirs : \E exes \in SUBSET dirs : fs = WinFs(dirs, exes)
       ELSE IF platform = "darwin" THEN fs \in SUBSET MacPaths
       ELSE IF platform = "linux"
       THEN fs \in { s \in SUBSET LinuxPaths : Cardinality(s) <= MaxPresent } \cup {LinuxPaths}
       ELSE fs \in SUBSET {UsrBinSteam}
    /\ InitIdle
    /\ InitNoLib
    /\ InitNoApps

NextRoot ==
    \/ findSteamLocation
    \/ findSteamPathSync
    \/ findSteamPathWindows_registry
    \/ findSteamPathWindows_common
    \/ findSteamPathWindows_throw
    \/ findSteamPathMacOS
    \/ findSteamPathLinux_probe
    \/ findSteamPathLinux_throw
    \/ findSteamLocation_return

SpecRoot == InitRoot /\ [][NextRoot]_vars

----------------------------------------------------------------------------
(* library-folder discovery as an operation of its own *)

\* a call of getLibraryFoldersSync(r)
getLibraryFoldersSync_call ==
    /\ pc = "idle"
    /\ calls < MaxCalls
    /\ \E r \in RootArgs :
          /\ root' = r
          /\ folders' = getLibraryFoldersSync(r)
    /\ pc' = "done"
    /\ result' = Returned
    /\ calls' = calls + 1
    /\ UNCHANGED <<rootVars, idx, steamPath, log, vdf, prevFolders, callVars>>

\* the caller keeps the returned list and is free to call again
NextCall ==
    /\ pc = "done"
    /\ calls < MaxCalls
    /\ pc' = "idle"
    /\ prevFolders' = [valid |-> TRUE, root |-> root, list |-> folders]
    /\ UNCHANGED <<rootVars, idx, steamPath, log, result, vdf, root, folders, calls, callVars>>

NoPrev == [valid |-> FALSE, root |-> NoPath, list |-> <<>>]

NoEnv == [LOCALAPPDATA |-> <<>>, APPDATA |-> <<>>, SNAP_USER_DATA |-> <<>>]

\* a file exists only inside an existing directory
LibFs ==
    { s \in SUBSET {join(SteamRoot, Steamapps), VdfFile(SteamRoot),
                    join(LibRoot, Steamapps), join(GoneRoot, Steamapps)} :
        VdfFile(SteamRoot) \in s => join(SteamRoot, Steamapps) \in s }

InitLib ==
    /\ form = "sync"
    /\ platform \in {"win32", "linux"}
    /\ homedirOut = "ok"
    /\ env = NoEnv
    /\ regOut = NoReg
    /\ whichOut = NoReg
    /\ fs \in LibFs
    /\ vdf \in [readable : BOOLEAN, paths : SeqsUpTo(VdfValues, MaxVdfPaths)]
    /\ VdfFile(SteamRoot) \notin fs => vdf = [readable |-> FALSE, paths |-> <<>>]
    /\ ~vdf.readable => vdf.paths = <<>>
    /\ root = NoPath
    /\ folders = <<>>
    /\ prevFolders = NoPrev
    /\ calls = 0
    /\ InitIdle
    /\ InitNoApps

NextLib ==
    \/ getLibraryFoldersSync_call
    \/ NextCall

SpecLib == InitLib /\ [][NextLib]_vars

----------------------------------------------------------------------------
(* steam-apps.ts: manifest parsing *)

\* `appmanifest_${appId}.acf`
ManifestName(id) ==
    CASE id = "440" -> "appmanifest_440.acf"
      [] id = "730" -> "appmanifest_730.acf"
      [] OTHER -> "appmanifest_.acf"

\* file.startsWith('appmanifest_') && file.endsWith('.acf')
LooksLikeManifest(file) ==
    file \in {"appmanifest_440.acf", "appmanifest_730.acf", "appmanifest_abc.acf"}

\* file.match(/appmanifest_(\d+)\.acf/)?.[1]
ManifestId(file) ==
    CASE file = "appmanifest_440.acf" -> "440"
      [] file = "appmanifest_730.acf" -> "730"
      [] OTHER -> Undefined

\* a manifest text is a sequence of lines <<key, value>>; its quoted strings in order
RECURSIVE QuotedStrings(_)
QuotedStrings(lines) ==
    IF lines = <<>> THEN <<>> ELSE Head(lines) \o QuotedStrings(Tail(lines))

\* content.match(/"key"\s*"([^"]+)"/)?.[1]: the first quoted string equal to the key
\* that is followed by a non-empty quoted string yields that string
Match(content, key) ==
    LET q == QuotedStrings(content)
        hits == { i \in 1..(Len(q) - 1) : q[i] = key /\ q[i + 1] # "" }
    IN IF hits = {} THEN Undefined
       ELSE q[(CHOOSE i \in hits : \A h \in hits : i <= h) + 1]

\* the characters of the values a manifest of the model can hold
Chars(str) ==
    CASE str = "15000000000" -> <<"1", "5", "0", "0", "0", "0", "0", "0", "0", "0", "0">>
      [] str = "1640995200" -> <<"1", "6", "4", "0", "9", "9", "5", "2", "0", "0">>
      [] str = "0" -> <<"0">>
      [] str = "-5" -> <<"-", "5">>
      [] str = "12abc" -> <<"1", "2", "a", "b", "c">>
      [] str = "abc" -> <<"a", "b", "c">>
      [] OTHER -> <<>>

Digits == {"0", "1", "2", "3", "4", "5", "6", "7", "8", "9"}

RECURSIVE LeadingDigits(_)
LeadingDigits(cs) ==
    IF cs = <<>> \/ Head(cs) \notin Digits THEN <<>>
    ELSE <<Head(cs)>> \o LeadingDigits(Tail(cs))

RECURSIVE StripZeros(_)
StripZeros(ds) == IF Len(ds) > 1 /\ Head(ds) = "0" THEN StripZeros(Tail(ds)) ELSE ds

NaN == [tag |-> "NaN", neg |-> FALSE, digits |-> <<>>]
NoNumber == [tag |-> "undefined", neg |-> FALSE, digits |-> <<>>]

\* parseInt(str, 10): optional sign, then the leading decimal digits; NaN without one.
\* The number is kept as its decimal digits.
parseInt(str) ==
    LET cs == Chars(str)
        signed == cs # <<>> /\ Head(cs) \in {"-", "+"}
        ds == LeadingDigits(IF signed THEN Tail(cs) ELSE cs)
    IN IF ds = <<>> THEN NaN
       ELSE [tag |-> "number",
             neg |-> signed /\ Head(cs) = "-" /\ StripZeros(ds) # <<"0">>,
             digits |-> StripZeros(ds)]

\* mutant: the seconds are taken for milliseconds
DateOfSeconds_unscaled(n) ==
    IF n.tag = "NaN" THEN [tag |-> "Invalid Date", neg |-> FALSE, digits |-> <<>>]
    ELSE [tag |-> "date", neg |-> n.neg, digits |-> n.digits]

\* new Date(seconds * 1000): Invalid Date for NaN, else the milliseconds
DateOfSeconds(n) ==
    IF n.tag = "NaN" THEN [tag |-> "Invalid Date", neg |-> FALSE, digits |-> <<>>]
    ELSE [tag |-> "date", neg |-> n.neg,
          digits |-> IF n.digits = <<"0">> THEN n.digits ELSE n.digits \o <<"0", "0", "0">>]

NoApp == [appId |-> Undefined, name |-> Undefined, installDir |-> NoPath,
          sizeOnDisk |-> NoNumber, isInstalled |-> FALSE, lastUpdated |-> NoNumber]

\* mutant: the declared directory is reported whether or not it was verified
ReportedInstallDir_unverified(isInstalled, installDir) == installDir

\* installDir: isInstalled ? installDir : undefined
ReportedInstallDir(isInstalled, installDir) == IF isInstalled THEN installDir ELSE NoPath

\* the record built from a manifest text found in libraryFolder
ParseManifest(id, libraryFolder, content) ==
    LET nameMatch == Match(content, "name")
        installDirMatch == Match(content, "installdir")
        sizeMatch == Match(content, "SizeOnDisk")
        lastUpdatedMatch == Match(content, "LastUpdated")
        installDir == IF installDirMatch # Undefined
                      THEN join(libraryFolder, <<"common", installDirMatch>>)
                      ELSE NoPath
        isInstalled == IF installDir # NoPath THEN existsSync(installDir) ELSE FALSE
    IN [appId |-> id,
        name |-> nameMatch,
        installDir |-> ReportedInstallDir(isInstalled, installDir),
        sizeOnDisk |-> IF sizeMatch # Undefined THEN parseInt(sizeMatch) ELSE NoNumber,
        isInstalled |-> isInstalled,
        lastUpdated |-> IF lastUpdatedMatch # Undefined
                        THEN DateOfSeconds(parseInt(lastUpdatedMatch))
                        ELSE NoNumber]

\* readFileSync(appManifestPath, 'utf8'): the text, or readable = FALSE for a throw
readFileSync(path) == manifests[Stored(path, DOMAIN manifests)]

\* readdirSync(libraryFolder): the file names, or ok = FALSE for a throw
readdirSync(path) == listing[Stored(path, DOMAIN listing)]

\* mutant: the throw sits inside the loop, so that only the first folder is looked at
findSteamAppInLibrariesSync_firstonly(id, libraryFolders) ==
    IF libraryFolders = <<>> THEN [found |-> FALSE, app |-> NoApp]
    ELSE LET libraryFolder == Head(libraryFolders)
             appManifestPath == join(libraryFolder, <<ManifestName(id)>>)
         IN IF existsSync(appManifestPath) /\ readFileSync(appManifestPath).readable
            THEN [found |-> TRUE,
                  app |-> ParseManifest(id, libraryFolder, readFileSync(appManifestPath).content)]
            ELSE [found |-> FALSE, app |-> NoApp]

RECURSIVE findSteamAppInLibrariesSync(_, _)
\* the first folder whose manifest exists and can be read decides; a read error is
\* caught and the next folder is tried; found = FALSE stands for the final throw
findSteamAppInLibrariesSync(id, libraryFolders) ==
    IF libraryFolders = <<>> THEN [found |-> FALSE, app |-> NoApp]
    ELSE LET libraryFolder == Head(libraryFolders)
             appManifestPath == join(libraryFolder, <<ManifestName(id)>>)
         IN IF existsSync(appManifestPath) /\ readFileSync(appManifestPath).readable
            THEN [found |-> TRUE,
                  app |-> ParseManifest(id, libraryFolder, readFileSync(appManifestPath).content)]
            ELSE findSteamAppInLibrariesSync(id, Tail(libraryFolders))

\* mutant: the key keeps its letter case on every platform
DedupKey_cased(app) == <<app.appId, "|">> \o normalize(app.installDir)

\* app.appId + '|' + normalize(app.installDir), lower-cased on Windows
DedupKey(app) ==
    LET key == <<app.appId, "|">> \o normalize(app.installDir)
    IN IF platform = "win32" THEN [i \in DOMAIN key |-> Lower(key[i])] ELSE key

\* mutant: every record read is kept
IsInstalledApp_any(app) == TRUE

\* app.isInstalled && app.installDir
IsInstalledApp(app) == app.isInstalled /\ app.installDir # NoPath

\* mutant: a new record goes to the front of the list
Push_front(list, app) == <<app>> \o list

\* apps.push(app)
Push(list, app) == Append(list, app)

\* one file of a directory listing: st = [apps, seen]
ScanFile(st, libraryFolder, file) ==
    IF ~LooksLikeManifest(file) \/ ManifestId(file) = Undefined THEN st
    ELSE LET r == findSteamAppInLibrariesSync(ManifestId(file), <<libraryFolder>>) IN
         IF ~r.found THEN st
         ELSE IF IsInstalledApp(r.app) /\ DedupKey(r.app) \notin st.seen
         THEN [apps |-> Push(st.apps, r.app), seen |-> st.seen \cup {DedupKey(r.app)}]
         ELSE st

RECURSIVE ScanFiles(_, _, _)
ScanFiles(st, libraryFolder, files) ==
    IF files = <<>> THEN st
    ELSE ScanFiles(ScanFile(st, libraryFolder, Head(files)), libraryFolder, Tail(files))

\* mutant: one try around the whole loop, a listing that throws ends the scan
AfterListingError_abort(libraryFolders) == <<>>

\* outer catch of the loop body: the folders still to scan after a listing threw
AfterListingError(libraryFolders) == Tail(libraryFolders)

RECURSIVE ScanFolders(_, _)
\* a folder whose listing throws is skipped
ScanFolders(st, libraryFolders) ==
    IF libraryFolders = <<>> THEN st
    ELSE LET libraryFolder == Head(libraryFolders)
             dir == readdirSync(libraryFolder)
         IN IF dir.ok
            THEN ScanFolders(ScanFiles(st, libraryFolder, dir.files), Tail(libraryFolders))
            ELSE ScanFolders(st, AfterListingError(libraryFolders))

getInstalledSteamAppsFromLibrariesSync(libraryFolders) ==
    ScanFolders([apps |-> <<>>, seen |-> {}], libraryFolders).apps

----------------------------------------------------------------------------
(* index.ts: findSteamApp and getInstalledSteamApps *)

AppIds == {"440", "730"}

\* steamPath arguments of the app operations; NoPath is an omitted (or empty) one
AppRootArgs == {NoPath, SteamRoot, LibRoot}

\* mutant: the steamPath argument is ignored and the root is always resolved
findSteamApp_resolving ==
    /\ pc = "idle"
    /\ caller = "none"
    /\ caller' = "findSteamApp"
    /\ \E id \in AppIds : appId' = id
    /\ \E r \in AppRootArgs : root' = r
    /\ pc' = "findSteamPathSync"
    /\ UNCHANGED <<rootVars, idx, steamPath, log, result, vdf, folders, prevFolders, calls,
                   manifests, listing, apps>>

\* const actualSteamPath = steamPath || findSteamPathSync()
findSteamApp ==
    /\ pc = "idle"
    /\ caller = "none"
    /\ caller' = "findSteamApp"
    /\ \E id \in AppIds : appId' = id
    /\ \E r \in AppRootArgs :
          /\ root' = r
          /\ IF r = NoPath THEN pc' = "findSteamPathSync" /\ UNCHANGED steamPath
             ELSE pc' = "resolved" /\ steamPath' = r
    /\ UNCHANGED <<rootVars, idx, log, result, vdf, folders, prevFolders, calls,
                   manifests, listing, apps>>

\* findSteamAppInLibraries returns what findSteamAppInLibrariesSync returns
findSteamAppInLibraries(id, libraryFolders) == findSteamAppInLibrariesSync(id, libraryFolders)

RECURSIVE findSteamAppInLibrariesSync_log(_, _)
\* the manifest reads of findSteamAppInLibrariesSync with their outcomes: a manifest is
\* read where its file exists, and the first one read without error ends the loop
findSteamAppInLibrariesSync_log(id, libraryFolders) ==
    IF libraryFolders = <<>> THEN <<>>
    ELSE LET appManifestPath == join(Head(libraryFolders), <<ManifestName(id)>>) IN
         IF ~existsSync(appManifestPath)
         THEN findSteamAppInLibrariesSync_log(id, Tail(libraryFolders))
         ELSE IF readFileSync(appManifestPath).readable
         THEN <<Read(appManifestPath, "app", [status |-> "ok", text |-> ""])>>
         ELSE <<Read(appManifestPath, "app", Threw)>>
                 \o findSteamAppInLibrariesSync_log(id, Tail(libraryFolders))

\* the library folders as the called form of the operation discovers them
DiscoveredFolders ==
    IF form = "async" THEN getLibraryFolders(steamPath) ELSE getLibraryFoldersSync(steamPath)

\* mutant: a record that is not installed gives way to an installed one of a later folder
findSteamApp_locate_installed ==
    /\ pc = "resolved"
    /\ caller = "findSteamApp"
    /\ LET libraryFolders == DiscoveredFolders
           first == findSteamAppInLibrariesSync(appId, libraryFolders)
           later == IF libraryFolders = <<>> THEN first
                    ELSE findSteamAppInLibrariesSync(appId, Tail(libraryFolders))
           r == IF first.found /\ ~first.app.isInstalled /\ later.found /\ later.app.isInstalled
                THEN later ELSE first
       IN /\ folders' = libraryFolders
          /\ log' = log \o findSteamAppInLibrariesSync_log(appId, libraryFolders)
          /\ IF r.found
             THEN apps' = <<r.app>> /\ result' = Returned
             ELSE apps' = <<>> /\ result' = Catch(SteamAppNotFoundError(appId, <<>>))
    /\ pc' = "done"
    /\ UNCHANGED <<rootVars, idx, steamPath, vdf, root, prevFolders, calls,
                   manifests, listing, appId, caller>>

\* mutant: a manifest that cannot be read ends the search
findSteamApp_locate_abort ==
    /\ pc = "resolved"
    /\ caller = "findSteamApp"
    /\ LET libraryFolders == DiscoveredFolders
           reads == findSteamAppInLibrariesSync_log(appId, libraryFolders)
           r == IF reads # <<>> /\ reads[1].out.status = "throw"
                THEN [found |-> FALSE, app |-> NoApp]
                ELSE findSteamAppInLibrariesSync(appId, libraryFolders)
       IN /\ folders' = libraryFolders
          /\ log' = log \o reads
          /\ IF r.found
             THEN apps' = <<r.app>> /\ result' = Returned
             ELSE apps' = <<>> /\ result' = Catch(SteamAppNotFoundError(appId, <<>>))
    /\ pc' = "done"
    /\ UNCHANGED <<rootVars, idx, steamPath, vdf, root, prevFolders, calls,
                   manifests, listing, appId, caller>>

\* library-folder discovery and the manifest lookup, then the catch block; the log
\* takes the manifest reads
findSteamApp_locate ==
    /\ pc = "resolved"
    /\ caller = "findSteamApp"
    /\ LET libraryFolders == DiscoveredFolders
           r == IF form = "async" THEN findSteamAppInLibraries(appId, libraryFolders)
                ELSE findSteamAppInLibrariesSync(appId, libraryFolders)
       IN /\ folders' = libraryFolders
          /\ log' = log \o findSteamAppInLibrariesSync_log(appId, libraryFolders)
          /\ IF r.found
             THEN apps' = <<r.app>> /\ result' = Returned
             ELSE apps' = <<>> /\ result' = Catch(SteamAppNotFoundError(appId, <<>>))
    /\ pc' = "done"
    /\ UNCHANGED <<rootVars, idx, steamPath, vdf, root, prevFolders, calls,
                   manifests, listing, appId, caller>>

getInstalledSteamApps ==
    /\ pc = "idle"
    /\ caller = "none"
    /\ caller' = "getInstalledSteamApps"
    /\ \E r \in AppRootArgs :
          /\ root' = r
          /\ IF r = NoPath THEN pc' = "findSteamPathSync" /\ UNCHANGED steamPath
             ELSE pc' = "resolved" /\ steamPath' = r
    /\ UNCHANGED <<rootVars, idx, log, result, vdf, folders, prevFolders, calls, appVars>>

\* getInstalledSteamAppsFromLibraries: the promise resolves to what
\* getInstalledSteamAppsFromLibrariesSync returns
getInstalledSteamAppsFromLibraries(libraryFolders) ==
    getInstalledSteamAppsFromLibrariesSync(libraryFolders)

\* library-folder discovery and the inventory scan
getInstalledSteamApps_scan ==
    /\ pc = "resolved"
    /\ caller = "getInstalledSteamApps"
    /\ LET libraryFolders == DiscoveredFolders
       IN /\ folders' = libraryFolders
          /\ apps' = IF form = "async" THEN getInstalledSteamAppsFromLibraries(libraryFolders)
                     ELSE getInstalledSteamAppsFromLibrariesSync(libraryFolders)
    /\ result' = Returned
    /\ pc' = "done"
    /\ UNCHANGED <<rootVars, idx, steamPath, log, vdf, root, prevFolders, calls,
                   manifests, listing, appId, caller>>

\* the root as libraryfolders.vdf may spell it: same directory on Windows only
SteamRootLower == <<"C:", "Program Files (x86)", "steam">>

F1 == join(SteamRoot, Steamapps)
F2 == join(LibRoot, Steamapps)
F3 == join(GoneRoot, Steamapps)

TF2Dir == "Team Fortress 2"

FullManifest ==
    << <<"name", "Team Fortress 2">>, <<"installdir", TF2Dir>>,
       <<"SizeOnDisk", "15000000000">>, <<"LastUpdated", "1640995200">> >>

\* a manifest without an installdir line
NameOnlyManifest == << <<"name", "Counter-Strike 2">>, <<"SizeOnDisk", "0">> >>

\* a manifest whose installdir value is the empty string
EmptyInstallDirManifest == << <<"name", "Team Fortress 2">>, <<"installdir", "">> >>

ManifestContents == {FullManifest, NameOnlyManifest, EmptyInstallDirManifest}

ManifestFiles ==
    {F1 \o <<ManifestName("440")>>, F1 \o <<ManifestName("730")>>, F2 \o <<ManifestName("440")>>}

NoManifest == [readable |-> FALSE, content |-> <<>>]

MaxManifests == 2

\* the manifest files of a folder in one of the orders readdirSync may give them
Listings(files, folder) ==
    LET here == { id \in AppIds : (folder \o <<ManifestName(id)>>) \in files }
    IN IF folder \notin fs THEN {[ok |-> FALSE, files |-> <<>>]}
       ELSE { [ok |-> TRUE, files |-> q] :
                q \in { t \in SeqsUpTo({ManifestName(id) : id \in here}, Cardinality(here)) :
                          Len(t) = Cardinality(here) /\ \A i \in DOMAIN t : \A j \in DOMAIN t :
                                                           i # j => t[i] # t[j] } }

InitApp ==
    /\ form = "sync"
    /\ platform \in {"win32", "linux"}
    /\ homedirOut \in (IF platform = "linux" THEN {"ok", "throw"} ELSE {"ok"})
    /\ env = NoEnv
    /\ regOut = IF platform = "win32" THEN [status |-> "value", path |-> SteamRoot] ELSE NoReg
    /\ whichOut = NoReg
    /\ \E libs \in SUBSET {F1, F2} :
       \E files \in { m \in SUBSET ManifestFiles :
                        /\ Cardinality(m) <= MaxManifests
                        /\ \A x \in m : SubSeq(x, 1, Len(x) - 1) \in libs } :
       \E dirs \in SUBSET { f \o <<"common", TF2Dir>> : f \in libs } :
       \E exe \in (IF platform = "win32" THEN SUBSET {SteamRoot \o SteamExe} ELSE {{}}) :
       \E v \in SUBSET ({VdfFile(SteamRoot)} \cap { f \o <<"libraryfolders.vdf">> : f \in libs }) :
          /\ fs = {SteamRoot} \cup exe \cup libs \cup { f \o <<"common">> : f \in libs }
                    \cup files \cup dirs \cup v
          /\ manifests \in [ManifestFiles -> {NoManifest} \cup [readable : {TRUE},
                                                               content : ManifestContents]]
          /\ \A x \in ManifestFiles : x \notin files => manifests[x] = NoManifest
          /\ listing \in [{F1, F2, F3} -> UNION { Listings(files, f) : f \in {F1, F2, F3} }]
          /\ \A f \in {F1, F2, F3} : listing[f] \in Listings(files, f)
          /\ vdf \in (IF v = {} THEN {NoVdf}
                      ELSE {NoVdf, [readable |-> TRUE, paths |-> <<LibRoot>>],
                            [readable |-> TRUE, paths |-> <<SteamRootLower>>]})
    /\ root = NoPath
    /\ folders = <<>>
    /\ prevFolders = NoPrev
    /\ calls = 0
    /\ appId = ""
    /\ apps = <<>>
    /\ caller = "none"
    /\ InitIdle

NextApp ==
    \/ findSteamApp
    \/ findSteamApp_locate
    \/ getInstalledSteamApps
    \/ getInstalledSteamApps_scan
    \/ findSteamPathSync
    \/ findSteamPathWindows_registry
    \/ findSteamPathWindows_common
    \/ findSteamPathWindows_throw
    \/ findSteamPathLinux_probe
    \/ findSteamPathLinux_throw

SpecApp == InitApp /\ [][NextApp]_vars

----------------------------------------------------------------------------
(* findSteamAppInLibrariesSync as an operation of its own *)

ManifestKeys == {"name", "installdir", "SizeOnDisk", "LastUpdated"}

\* the values a line of a manifest of the model can hold
FieldValues(key) ==
    CASE key = "name" -> {"Team Fortress 2", "SizeOnDisk"}
      [] key = "installdir" -> {TF2Dir, ""}
      [] key = "SizeOnDisk" -> {"15000000000", "0", "-5", "12abc", "abc"}
      [] key = "LastUpdated" -> {"1640995200", "abc"}

ManifestLines == { <<key, value>> : key \in ManifestKeys, value \in UNION { FieldValues(k) : k \in ManifestKeys } }

\* manifest texts holding each field at most once, the lines in any order
ParseContents ==
    { q \in SeqsUpTo({ l \in ManifestLines : l[2] \in FieldValues(l[1]) }, Cardinality(ManifestKeys)) :
        \A i \in DOMAIN q : \A j \in DOMAIN q : i # j => q[i][1] # q[j][1] }

ParsedFile == F1 \o <<ManifestName("440")>>

InitParse ==
    /\ form = "sync"
    /\ platform \in {"win32", "linux"}
    /\ homedirOut = "ok"
    /\ env = NoEnv
    /\ regOut = NoReg
    /\ whichOut = NoReg
    /\ \E dirs \in SUBSET {F1 \o <<"common", TF2Dir>>} :
          fs = {SteamRoot, F1, F1 \o <<"common">>, ParsedFile} \cup dirs
    /\ \E m \in {NoManifest} \cup [readable : {TRUE}, content : ParseContents] :
          manifests = [x \in ManifestFiles |-> IF x = ParsedFile THEN m ELSE NoManifest]
    /\ listing = [f \in {F1, F2, F3} |-> [ok |-> FALSE, files |-> <<>>]]
    /\ vdf = NoVdf
    /\ root = NoPath
    /\ folders = <<F1>>
    /\ prevFolders = NoPrev
    /\ calls = 0
    /\ appId = ""
    /\ apps = <<>>
    /\ caller = "none"
    /\ InitIdle

\* findSteamAppInLibrariesSync('440', folders, ''): the record returned or the throw
findSteamAppInLibrariesSync_call ==
    /\ pc = "idle"
    /\ caller = "none"
    /\ caller' = "findSteamAppInLibraries"
    /\ appId' = "440"
    /\ LET r == findSteamAppInLibrariesSync("440", folders)
       IN IF r.found
          THEN apps' = <<r.app>> /\ result' = Returned
          ELSE apps' = <<>> /\ result' = SteamAppNotFoundError("440", <<>>)
    /\ pc' = "done"
    /\ UNCHANGED <<rootVars, idx, steamPath, log, libVars, manifests, listing>>

NextParse == findSteamAppInLibrariesSync_call

SpecParse == InitParse /\ [][NextParse]_vars

----------------------------------------------------------------------------
(* the inventory scan over listings that fail and files that are no manifests *)

ScanManifestFiles == { f \o <<ManifestName(id)>> : f \in {F1, F2}, id \in AppIds }

ScanNames == {ManifestName("440"), ManifestName("730"), "appmanifest_abc.acf"}

\* what readdirSync may give for a folder: a throw, or its three files in some order
ScanListings ==
    {[ok |-> FALSE, files |-> <<>>]}
       \cup { [ok |-> TRUE, files |-> q] :
                q \in { t \in [1..3 -> ScanNames] : \A i, j \in 1..3 : i # j => t[i] # t[j] } }

InitScan ==
    /\ form = "sync"
    /\ platform = "linux"
    /\ homedirOut = "ok"
    /\ env = NoEnv
    /\ regOut = NoReg
    /\ whichOut = NoReg
    /\ \E dirs \in SUBSET { f \o <<"common", TF2Dir>> : f \in {F1, F2} } :
          fs = {SteamRoot, F1, F2, VdfFile(SteamRoot)}
                 \cup { f \o <<"common">> : f \in {F1, F2} }
                 \cup { f \o <<n>> : f \in {F1, F2}, n \in ScanNames }
                 \cup dirs
    /\ vdf = [readable |-> TRUE, paths |-> <<LibRoot>>]
    /\ manifests \in [ScanManifestFiles ->
                         {NoManifest, [readable |-> TRUE, content |-> FullManifest]}]
    /\ \E l1 \in ScanListings : \E l2 \in ScanListings :
          listing = [f \in {F1, F2, F3} |->
                       IF f = F1 THEN l1 ELSE IF f = F2 THEN l2
                       ELSE [ok |-> FALSE, files |-> <<>>]]
    /\ root = NoPath
    /\ folders = <<>>
    /\ prevFolders = NoPrev
    /\ calls = 0
    /\ appId = ""
    /\ apps = <<>>
    /\ caller = "none"
    /\ InitIdle

NextScan ==
    \/ getInstalledSteamApps
    \/ getInstalledSteamApps_scan
    \/ findSteamPathSync
    \/ findSteamPathLinux_probe
    \/ findSteamPathLinux_throw

SpecScan == InitScan /\ [][NextScan]_vars

----------------------------------------------------------------------------
(* calls that follow one another while the installation changes on disk *)

\* the installation under SteamRoot, without the manifest of app 440
RootFiles ==
    {SteamRoot, SteamRoot \o SteamExe, F1, F1 \o <<"common">>, F1 \o <<"common", TF2Dir>>,
     VdfFile(SteamRoot)}

\* a second installation under LibRoot, which libraryfolders.vdf declares as a library
LibraryFiles ==
    {LibRoot, LibRoot \o SteamExe, F2, F2 \o <<"common">>, F2 \o <<"common", TF2Dir>>,
     F2 \o <<ManifestName("440")>>}

\* readdirSync over the files S: the manifest files of the folder, or a throw where
\* the folder is missing
ListingOf(S) ==
    [f \in {F1, F2, F3} |->
        IF f \notin S THEN [ok |-> FALSE, files |-> <<>>]
        ELSE [ok |-> TRUE,
              files |-> IF (f \o <<ManifestName("440")>>) \in S
                        THEN <<ManifestName("440")>> ELSE <<>>]]

RegistryValues == {[status |-> "nomatch", path |-> NoPath], [status |-> "value", path |-> LibRoot]}

InitSeq ==
    /\ form = "sync"
    /\ platform = "win32"
    /\ homedirOut = "ok"
    /\ env = NoEnv
    /\ regOut \in RegistryValues
    /\ whichOut = NoReg
    /\ fs \in {RootFiles, RootFiles \cup LibraryFiles}
    /\ listing = ListingOf(fs)
    /\ manifests = [x \in ManifestFiles |->
                      IF x = F1 \o <<ManifestName("730")>> THEN NoManifest
                      ELSE [readable |-> TRUE, content |-> FullManifest]]
    /\ vdf = [readable |-> TRUE, paths |-> <<LibRoot>>]
    /\ root = NoPath
    /\ folders = <<>>
    /\ prevFolders = NoPrev
    /\ calls = 0
    /\ appId = ""
    /\ apps = <<>>
    /\ caller = "none"
    /\ InitIdle

\* between two calls the manifest of app 440 is written into the main folder, or deleted
ManifestChange ==
    /\ pc = "idle"
    /\ F1 \in fs
    /\ LET file == F1 \o <<ManifestName("440")>>
           S == IF file \in fs THEN fs \ {file} ELSE fs \cup {file}
       IN fs' = S /\ listing' = ListingOf(S)
    /\ UNCHANGED <<platform, env, regOut, whichOut, homedirOut, form, pc, idx, steamPath, log,
                   result, libVars, manifests, appId, apps, caller>>

\* between two calls the library under LibRoot is removed, or added
LibraryChange ==
    /\ pc = "idle"
    /\ LET S == IF F2 \in fs THEN fs \ LibraryFiles ELSE fs \cup LibraryFiles
       IN fs' = S /\ listing' = ListingOf(S)
    /\ UNCHANGED <<platform, env, regOut, whichOut, homedirOut, form, pc, idx, steamPath, log,
                   result, libVars, manifests, appId, apps, caller>>

\* between two calls the installation under SteamRoot is removed, or installed
RootChange ==
    /\ pc = "idle"
    /\ LET S == IF SteamRoot \in fs
                THEN fs \ (RootFiles \cup {F1 \o <<ManifestName("440")>>})
                ELSE fs \cup RootFiles
       IN fs' = S /\ listing' = ListingOf(S)
    /\ UNCHANGED <<platform, env, regOut, whichOut, homedirOut, form, pc, idx, steamPath, log,
                   result, libVars, manifests, appId, apps, caller>>

\* between two calls the InstallPath value of the registry is written, or deleted
RegistryChange ==
    /\ pc = "idle"
    /\ \E r \in RegistryValues \ {regOut} : regOut' = r
    /\ UNCHANGED <<platform, env, fs, whichOut, homedirOut, form, pc, idx, steamPath, log,
                   result, libVars, appVars, caller>>

\* the call has ended and the caller is free to call again: the locals of the call
\* are gone, the arrays it returned are still the caller's
NextInvocation ==
    /\ pc = "done"
    /\ calls < MaxCalls
    /\ calls' = calls + 1
    /\ pc' = "idle"
    /\ idx' = 1
    /\ steamPath' = NoPath
    /\ log' = <<>>
    /\ result' = Pending
    /\ caller' = "none"
    /\ appId' = ""
    /\ root' = NoPath
    /\ prevFolders' = [valid |-> TRUE, root |-> steamPath, list |-> folders]
    /\ UNCHANGED <<rootVars, vdf, folders, manifests, listing, apps>>

NextSeq ==
    \/ findSteamLocation
    \/ findSteamApp
    \/ getInstalledSteamApps
    \/ findSteamPathSync
    \/ findSteamPathWindows_registry
    \/ findSteamPathWindows_common
    \/ findSteamPathWindows_throw
    \/ findSteamLocation_return
    \/ findSteamApp_locate
    \/ getInstalledSteamApps_scan
    \/ ManifestChange
    \/ LibraryChange
    \/ RootChange
    \/ RegistryChange
    \/ NextInvocation

SpecSeq == InitSeq /\ [][NextSeq]_vars

----------------------------------------------------------------------------
(* the three public operations on every platform *)

\* an installation under SteamRoot at the stages of its set-up
InstallStages ==
    LET s1 == {SteamRoot}
        s2 == s1 \cup {SteamRoot \o SteamExe}
        s3 == s2 \cup {F1, F1 \o <<"common">>, ParsedFile}
        s4 == s3 \cup {F1 \o <<"common", TF2Dir>>}
    IN {{}, s1, s2, s3, s4}

\* what the platform's resolver looks for, besides the installation under SteamRoot
ResolverPaths ==
    IF platform = "darwin" THEN {MacSteamPath}
    ELSE IF platform = "linux" THEN {candidatePaths[4], candidatePaths[10]}
    ELSE {}

\* the two version.txt files of every root that exists
VersionFilesIn(dirs) ==
    UNION { {r \o <<"version.txt">>, r \o <<"package">>, r \o <<"package", "version.txt">>} :
              r \in dirs \cap ({SteamRoot} \cup ResolverPaths) }

InitPublic ==
    /\ form \in {"sync", "async"}
    /\ platform \in Platforms
    /\ homedirOut \in (IF platform \in {"darwin", "linux"} THEN {"ok", "throw"} ELSE {"ok"})
    /\ env = NoEnv
    /\ regOut \in (IF platform = "win32"
                   THEN {NoReg, [status |-> "nomatch", path |-> NoPath],
                         [status |-> "value", path |-> SteamRoot]}
                   ELSE {NoReg})
    /\ whichOut = NoReg
    /\ \E stage \in InstallStages : \E found \in SUBSET ResolverPaths :
       \E versioned \in BOOLEAN : \E declared \in BOOLEAN :
          /\ fs = stage \cup found
                    \cup (IF versioned THEN VersionFilesIn(stage \cup found) ELSE {})
                    \cup (IF declared /\ F1 \in stage THEN {VdfFile(SteamRoot)} ELSE {})
          /\ vdf \in (IF declared /\ F1 \in stage
                      THEN {NoVdf, [readable |-> TRUE, paths |-> <<SteamRootLower>>]}
                      ELSE {NoVdf})
    /\ \E m \in {NoManifest, [readable |-> TRUE, content |-> FullManifest]} :
          manifests = [x \in ManifestFiles |-> IF x = ParsedFile /\ x \in fs THEN m ELSE NoManifest]
    /\ listing = [f \in {F1, F2, F3} |->
                    IF f \notin fs THEN [ok |-> FALSE, files |-> <<>>]
                    ELSE [ok |-> TRUE,
                          files |-> IF ParsedFile \in fs THEN <<ManifestName("440")>> ELSE <<>>]]
    /\ root = NoPath
    /\ folders = <<>>
    /\ prevFolders = NoPrev
    /\ calls = 0
    /\ appId = ""
    /\ apps = <<>>
    /\ caller = "none"
    /\ InitIdle

NextPublic ==
    \/ findSteamLocation
    \/ findSteamApp
    \/ getInstalledSteamApps
    \/ findSteamPathSync
    \/ findSteamPathWindows_registry
    \/ findSteamPathWindows_common
    \/ findSteamPathWindows_throw
    \/ findSteamPathMacOS
    \/ findSteamPathLinux_probe
    \/ findSteamPathLinux_throw
    \/ findSteamLocation_return
    \/ findSteamApp_locate
    \/ getInstalledSteamApps_scan
    \/ isSteamRunning_call

SpecPublic == InitPublic /\ [][NextPublic]_vars

----------------------------------------------------------------------------
(* root resolution: properties *)

Supported == {"win32", "darwin", "linux"}

\* last candidate position of the platform's list; position 0 is the registry value
LastCand ==
    IF platform = "win32" THEN Len(commonPaths)
    ELSE IF platform = "darwin" THEN 1
    ELSE IF platform = "linux" THEN Len(candidatePaths)
    ELSE 0

HasCand(k) ==
    IF k = 0 THEN platform = "win32" /\ regOut.status = "value" ELSE k \in 1..LastCand

CandAt(k) ==
    IF platform = "win32"
    THEN (IF k = 0 THEN normalize(regOut.path) ELSE normalize(commonPaths[k]))
    ELSE IF platform = "darwin" THEN MacSteamPath
    ELSE candidatePaths[k]

CandVerifies(k) ==
    /\ HasCand(k)
    /\ IF platform = "win32" THEN WinVerified(CandAt(k)) ELSE existsSync(CandAt(k))

Resolved == pc \in {"resolved", "done"} /\ steamPath # NoPath

\* the probes and commands of the root resolver, without the queries that follow it
ResolverLog ==
    SelectSeq(log, LAMBDA e : e.strat \in {"registry", "common", "macos", "linux"})

C2_UnsupportedPlatformFailsFirst ==
    platform \notin Supported =>
        /\ log = <<>>
        /\ pc \notin {"registry", "common", "macos", "linux", "resolved"}
        /\ pc = "done" =>
              /\ result.kind = "SteamNotFoundError"
              /\ result.platform = platform
              /\ result.msg = <<"Unsupported platform: ", platform>>

C2_Witness == pc = "done" /\ platform = "aix" /\ UsrBinSteam \in fs

\* the four conventional Windows paths in the documented order
ConventionalWinPaths ==
    << <<"C:", "Program Files (x86)", "Steam">>,
       <<"C:", "Program Files", "Steam">>,
       IF env.LOCALAPPDATA = <<>> THEN Cwd \o <<"Steam">> ELSE env.LOCALAPPDATA \o <<"Steam">>,
       IF env.APPDATA = <<>> THEN Cwd \o <<"Steam">> ELSE env.APPDATA \o <<"Steam">> >>

HasLauncher(p) == p \in fs /\ (p \o SteamExe) \in fs

\* the conventional directories probed so far, in probe order
CommonDirProbes ==
    LET IsDir(e) == e.strat = "common" /\ e.what = "dir"
        sel == SelectSeq(log, IsDir)
    IN [i \in DOMAIN sel |-> sel[i].path]

\* C3: when the registry strategy yields no verified path, the four conventional paths
\* are probed in the order Program Files (x86), Program Files, LOCALAPPDATA-derived,
\* APPDATA-derived; the first that exists and holds steam.exe is returned, and when
\* none qualifies the call fails with SteamNotFoundError and no other kind.
C3_WindowsFallsBackToConventionalPaths ==
    platform = "win32" /\ pc = "done" /\ ~CandVerifies(0) =>
        LET hits == { k \in 1..4 : HasLauncher(ConventionalWinPaths[k]) } IN
        IF hits = {}
        THEN /\ result.kind = "SteamNotFoundError"
             /\ CommonDirProbes = ConventionalWinPaths
        ELSE LET first == CHOOSE k \in hits : \A h \in hits : k <= h IN
             /\ result.kind = "ok"
             /\ result.path = ConventionalWinPaths[first]
             /\ CommonDirProbes = SubSeq(ConventionalWinPaths, 1, first)

\* the registry reported a directory without steam.exe and the last conventional path
\* is the only one that qualifies
C3_Witness ==
    /\ platform = "win32"
    /\ pc = "done"
    /\ regOut.status = "value"
    /\ normalize(regOut.path) \in fs
    /\ ~CandVerifies(0)
    /\ PF86 \in fs
    /\ result.kind = "ok"
    /\ result.path = AppData \o <<"Steam">>

WhichRuns == Len(SelectSeq(log, LAMBDA e : e.op = "exec" /\ e.cmd = "which steam"))

\* C4: on Linux, when no conventional candidate exists, "which steam" is run exactly
\* once and the path it reports is returned if it exists; the call fails only when the
\* lookup fails or reports a path that does not exist.
C4_LinuxFallsBackToWhich ==
    platform = "linux" /\ pc = "done" /\ (\A k \in 1..LastCand : ~CandVerifies(k)) =>
        /\ WhichRuns = 1
        /\ IF whichOut.status = "value" /\ whichOut.path \in fs
           THEN result.kind = "ok" /\ result.path = whichOut.path
           ELSE result.kind = "SteamNotFoundError"

\* C5: on Linux, when every probed path exists, the call returns /usr/bin/steam with
\* platform linux.
C5_LinuxNativePathFirst ==
    platform = "linux" /\ pc = "done" /\ fs = LinuxPaths =>
        /\ result.kind = "ok"
        /\ result.path = UsrBinSteam
        /\ result.platform = "linux"

\* C6: on macOS, when /Applications/Steam.app/Contents/MacOS exists and holds the Steam
\* executable the call returns that bundle path with platform darwin, and when the
\* bundle path is absent the call fails with SteamNotFoundError.
C6_MacBundleIsTheRoot ==
    platform = "darwin" /\ pc = "done" =>
        /\ (MacBundle \in fs /\ (MacBundle \o <<"Steam">>) \in fs
              => result.kind = "ok" /\ result.path = MacBundle /\ result.platform = "darwin")
        /\ (MacBundle \notin fs => result.kind = "SteamNotFoundError")

----------------------------------------------------------------------------
(* library-folder discovery: properties *)

\* a raw path without its empty and "." segments
Clean(p) == SelectSeq(p, LAMBDA x : x # "" /\ x # ".")

MainFolder == Clean(root) \o <<"steamapps">>

VdfParsed == (Clean(root) \o <<"steamapps", "libraryfolders.vdf">>) \in fs /\ vdf.readable

\* the main folder followed by the declared folders, before any filtering
AllDeclared ==
    <<MainFolder>> \o
    (IF VdfParsed THEN [i \in DOMAIN vdf.paths |-> Clean(vdf.paths[i]) \o <<"steamapps">>]
     ELSE <<>>)

\* position i survives: the path exists and no earlier position holds the same string
Kept(all, i) == all[i] \in fs /\ \A j \in 1..(i - 1) : all[j] # all[i]

RECURSIVE KeptUpTo(_, _)
KeptUpTo(all, n) ==
    IF n = 0 THEN <<>>
    ELSE KeptUpTo(all, n - 1) \o (IF Kept(all, n) THEN <<all[n]>> ELSE <<>>)

NoDuplicates(list) == \A i \in DOMAIN list : \A j \in DOMAIN list : i # j => list[i] # list[j]

LibDone == pc = "done" /\ result.kind = "returned"

\* C7: the returned list is the main steamapps folder followed by the declared paths
\* with the steamapps suffix, in file order, keeping the paths that exist and dropping
\* a path equal to one already listed; so it holds no two equal strings and no missing
\* path, and a folders file without path entries yields the main folder alone.
C7_LibraryFoldersExactList ==
    LibDone /\ root # NotAString /\ (VdfParsed \/ VdfFile(root) \notin fs) =>
        /\ folders = KeptUpTo(AllDeclared, Len(AllDeclared))
        /\ NoDuplicates(folders)
        /\ \A i \in DOMAIN folders : folders[i] \in fs
        /\ MainFolder \in fs => folders # <<>> /\ folders[1] = MainFolder
        /\ VdfParsed /\ vdf.paths = <<>> => folders = <<MainFolder>>

\* the folders file declares the root itself and an existing library
C7_Witness ==
    /\ LibDone
    /\ root = SteamRoot
    /\ vdf.paths = <<SteamRoot, <<"D:", "", "Lib">>>>
    /\ folders = <<SteamRoot \o Steamapps, LibRoot \o Steamapps>>

\* C8: discovery never raises; when the folders file cannot be read the result is the
\* main folder if it exists and the empty list otherwise, and any other internal
\* error yields the empty list.
C8_LibraryFoldersNeverRaise ==
    /\ pc = "done" => result.kind = "returned"
    /\ LibDone /\ root = NotAString => folders = <<>>
    /\ LibDone /\ root # NotAString /\ VdfFile(root) \in fs /\ ~vdf.readable =>
           folders = IF MainFolder \in fs THEN <<MainFolder>> ELSE <<>>

C8_Witness ==
    /\ LibDone
    /\ VdfFile(root) \in fs
    /\ ~vdf.readable
    /\ folders = <<MainFolder>>

\* C9: a call with the same root as the previous call, the filesystem unchanged,
\* returns the list the previous call returned.
C9_LibraryFoldersIdempotent ==
    LibDone /\ prevFolders.valid /\ prevFolders.root = root => folders = prevFolders.list

C9_Witness ==
    /\ LibDone
    /\ prevFolders.valid
    /\ prevFolders.root = root
    /\ Len(folders) = 2

----------------------------------------------------------------------------
(* sub-application records: properties *)

\* the installdir a manifest declares: the value of its first installdir line that
\* has a value (an empty value declares nothing)
DeclaredInstallDir(content) ==
    LET hits == { i \in DOMAIN content : content[i][1] = "installdir" /\ content[i][2] # "" }
    IN IF hits = {} THEN Undefined
       ELSE content[CHOOSE i \in hits : \A h \in hits : i <= h][2]

ReadableManifest(folder, id) ==
    LET name == IF id = "440" THEN "appmanifest_440.acf" ELSE "appmanifest_730.acf"
    IN OnDisk(folder \o <<name>>) /\ readFileSync(folder \o <<name>>).readable

ManifestOf(folder, id) ==
    readFileSync(folder \o <<IF id = "440" THEN "appmanifest_440.acf" ELSE "appmanifest_730.acf">>)

AppsReturned ==
    pc = "done" /\ result.kind = "returned" /\ caller \in {"findSteamApp", "getInstalledSteamApps"}

\* the record a was read from the manifest of its appId in library folder number k
ReadFrom(a, k) ==
    /\ ReadableManifest(folders[k], a.appId)
    /\ caller = "findSteamApp" => \A j \in 1..(k - 1) : ~ReadableManifest(folders[j], a.appId)
    /\ LET declared == DeclaredInstallDir(ManifestOf(folders[k], a.appId).content)
           dir == folders[k] \o <<"common", declared>>
       IN /\ a.isInstalled <=> (declared # Undefined /\ OnDisk(dir))
          /\ a.isInstalled => a.installDir = dir

\* C10: in every record returned by findSteamApp or getInstalledSteamApps, isInstalled
\* is true exactly when the manifest declares an installdir and the directory
\* <library folder>/common/<installdir> exists, and installDir is present exactly
\* when isInstalled is true.
C10_InstalledIffDeclaredAndPresent ==
    AppsReturned =>
        \A i \in DOMAIN apps :
            /\ apps[i].isInstalled <=> apps[i].installDir # NoPath
            /\ \E k \in DOMAIN folders : ReadFrom(apps[i], k)

\* a manifest that declares an installdir whose directory is missing
C10_Witness ==
    /\ AppsReturned
    /\ caller = "findSteamApp"
    /\ Len(apps) = 1
    /\ \E k \in DOMAIN folders :
          /\ ReadFrom(apps[1], k)
          /\ DeclaredInstallDir(ManifestOf(folders[k], appId).content) = TF2Dir
    /\ ~apps[1].isInstalled
    /\ apps[1].installDir = NoPath

----------------------------------------------------------------------------
(* manifest parsing: properties *)

\* findSteamAppInLibrariesSync returned the record of the parsed manifest
Parsed == pc = "done" /\ caller = "findSteamAppInLibraries" /\ result.kind = "returned"

ParsedContent == manifests[ParsedFile].content

\* the value on the line of a field, Undefined without such a line
FieldOf(content, key) ==
    LET hits == { i \in DOMAIN content : content[i][1] = key }
    IN IF hits = {} THEN Undefined
       ELSE content[CHOOSE i \in hits : \A h \in hits : i <= h][2]

\* no value of the manifest is the name of a field
PlainValues(content) == \A i \in DOMAIN content : content[i][2] \notin ManifestKeys

\* a non-empty value without any decimal digit
NoDigit(str) == Chars(str) # <<>> /\ \A i \in DOMAIN Chars(str) : Chars(str)[i] \notin Digits

\* C11: when the SizeOnDisk value is present but not a base-10 number, the returned
\* record has sizeOnDisk absent (undefined), the call returns, and name and
\* lastUpdated are still extracted.
C11_NonNumericSizeIsAbsent ==
    /\ pc = "done" /\ caller = "findSteamAppInLibraries" /\ manifests[ParsedFile].readable
          => result.kind = "returned"
    /\ Parsed /\ PlainValues(ParsedContent) /\ NoDigit(FieldOf(ParsedContent, "SizeOnDisk")) =>
          /\ apps[1].sizeOnDisk = NoNumber
          /\ apps[1].name = FieldOf(ParsedContent, "name")
          /\ apps[1].lastUpdated = NoNumber <=> FieldOf(ParsedContent, "LastUpdated") = Undefined

\* C12: when the LastUpdated value is present but not numeric, the returned record has
\* lastUpdated absent (undefined), not an invalid timestamp, and the call returns.
C12_NonNumericLastUpdatedIsAbsent ==
    Parsed /\ PlainValues(ParsedContent) /\ NoDigit(FieldOf(ParsedContent, "LastUpdated")) =>
        /\ apps[1].lastUpdated.tag # "Invalid Date"
        /\ apps[1].lastUpdated = NoNumber

\* C13: whenever the returned record has sizeOnDisk present, it is a non-negative
\* integer, for every manifest text.
C13_SizeIsNonNegativeInteger ==
    Parsed /\ apps[1].sizeOnDisk # NoNumber =>
        apps[1].sizeOnDisk.tag = "number" /\ ~apps[1].sizeOnDisk.neg

\* the orders of the lines of a manifest
LineOrders(content) ==
    { q \in [DOMAIN content -> Range(content)] : Range(q) = Range(content) }

\* the manifest without its line i
WithoutLine(content, i) == SubSeq(content, 1, i - 1) \o SubSeq(content, i + 1, Len(content))

\* each field name is written at most once in the manifest, as a key or as a value
KeysOnce(content) ==
    \A k \in ManifestKeys :
        Cardinality({ i \in DOMAIN content : content[i][1] = k })
          + Cardinality({ i \in DOMAIN content : content[i][2] = k }) <= 1

\* records a and b agree on the fields that do not come from the line of key
AgreeExcept(a, b, key) ==
    /\ key # "name" => a.name = b.name
    /\ key # "installdir" => a.installDir = b.installDir /\ a.isInstalled = b.isInstalled
    /\ key # "SizeOnDisk" => a.sizeOnDisk = b.sizeOnDisk
    /\ key # "LastUpdated" => a.lastUpdated = b.lastUpdated

\* C14: for a manifest holding each of name, installdir, SizeOnDisk, LastUpdated at
\* most once, every order of its lines parses to the same record, and removing the
\* line of one field leaves the values extracted for the other fields unchanged.
C14_ExtractionIsOrderIndependent ==
    Parsed /\ KeysOnce(ParsedContent) =>
        /\ \A q \in LineOrders(ParsedContent) : ParseManifest(appId, F1, q) = apps[1]
        /\ \A i \in DOMAIN ParsedContent :
              AgreeExcept(ParseManifest(appId, F1, WithoutLine(ParsedContent, i)), apps[1],
                          ParsedContent[i][1])

----------------------------------------------------------------------------
(* findSteamApp: properties *)

FindAppDone == pc = "done" /\ caller = "findSteamApp"

\* C15: findSteamApp for an id without a manifest file in any discovered library folder
\* (an empty folder list included) fails with SteamAppNotFoundError, and every
\* SteamAppNotFoundError of findSteamApp, a re-wrapped failure included, carries the
\* requested id.
C15_AppNotFoundCarriesId ==
    FindAppDone =>
        /\ steamPath # NoPath
             /\ (\A k \in DOMAIN folders : ~OnDisk(folders[k] \o <<ManifestName(appId)>>))
             => result.kind = "SteamAppNotFoundError"
        /\ result.kind = "SteamAppNotFoundError" =>
              \E i \in DOMAIN result.msg : result.msg[i] = appId

\* the record of the Team Fortress 2 manifest found in library folder f
TF2Record(f) ==
    [appId |-> "440",
     name |-> "Team Fortress 2",
     installDir |-> f \o <<"common", "Team Fortress 2">>,
     sizeOnDisk |-> [tag |-> "number", neg |-> FALSE,
                     digits |-> <<"1", "5", "0", "0", "0", "0", "0", "0", "0", "0", "0">>],
     isInstalled |-> TRUE,
     lastUpdated |-> [tag |-> "date", neg |-> FALSE,
                      digits |-> <<"1", "6", "4", "0", "9", "9", "5", "2", "0", "0",
                                   "0", "0", "0">>]]

\* the steamapps folder of the root holds the Team Fortress 2 manifest and directory
TF2Installed(f) ==
    /\ (f \o <<"appmanifest_440.acf">>) \in fs
    /\ manifests[f \o <<"appmanifest_440.acf">>] =
          [readable |-> TRUE,
           content |-> << <<"name", "Team Fortress 2">>, <<"installdir", "Team Fortress 2">>,
                          <<"SizeOnDisk", "15000000000">>, <<"LastUpdated", "1640995200">> >>]
    /\ (f \o <<"common", "Team Fortress 2">>) \in fs

\* C16: with appmanifest_440.acf (name and installdir "Team Fortress 2", SizeOnDisk
\* "15000000000", LastUpdated "1640995200") in the steamapps folder of the root and the
\* directory steamapps/common/Team Fortress 2 present, findSteamApp("440") returns
\* appId "440", that name, installDir equal to the directory, sizeOnDisk 15000000000,
\* isInstalled true and lastUpdated 1640995200 seconds (1640995200000 ms) after the epoch.
C16_TeamFortressExample ==
    FindAppDone /\ appId = "440" /\ steamPath # NoPath
        /\ TF2Installed(steamPath \o <<"steamapps">>) =>
            /\ result.kind = "returned"
            /\ apps = <<TF2Record(steamPath \o <<"steamapps">>)>>

\* the example with the root found through the registry and a second library folder
C16_Witness ==
    /\ FindAppDone
    /\ appId = "440"
    /\ platform = "win32"
    /\ root = NoPath
    /\ Len(folders) = 2
    /\ TF2Installed(steamPath \o <<"steamapps">>)
    /\ apps # <<>>
    /\ apps[1].isInstalled

----------------------------------------------------------------------------
(* getInstalledSteamApps: properties *)

ListDone == pc = "done" /\ caller = "getInstalledSteamApps" /\ result.kind = "returned"

\* the dedup key: identifier and normalized install path, letter case ignored on Windows
KeyOf(id, dir) ==
    <<id, IF platform = "win32" THEN [i \in DOMAIN dir |-> Lower(dir[i])] ELSE dir>>

\* C17: the inventory of getInstalledSteamApps never holds two entries with the same
\* dedup key, also when one app is reached through two distinct library folders.
C17_NoTwoEntriesWithOneKey ==
    ListDone =>
        \A i \in DOMAIN apps : \A j \in DOMAIN apps :
            i # j => KeyOf(apps[i].appId, normalize(apps[i].installDir))
                       # KeyOf(apps[j].appId, normalize(apps[j].installDir))

\* two spellings of one folder are both library folders, each lists the same installed
\* app, and the inventory holds it once
C17_Witness ==
    /\ ListDone
    /\ Len(folders) = 2
    /\ folders[1] # folders[2]
    /\ \A k \in {1, 2} :
          /\ ReadableManifest(folders[k], "440")
          /\ DeclaredInstallDir(ManifestOf(folders[k], "440").content) = TF2Dir
          /\ OnDisk(folders[k] \o <<"common", TF2Dir>>)
    /\ readdirSync(folders[1]) = readdirSync(folders[2])
    /\ Len(apps) = 1

\* the manifest files the listing of library folder k names, as identifiers
ListedIds(k) ==
    LET dir == readdirSync(folders[k])
    IN IF dir.ok THEN { id \in AppIds : \E n \in DOMAIN dir.files : dir.files[n] = ManifestName(id) }
       ELSE {}

\* the manifest of id in library folder k declares a directory that exists
InstalledIn(k, id) ==
    /\ ReadableManifest(folders[k], id)
    /\ DeclaredInstallDir(ManifestOf(folders[k], id).content) # Undefined
    /\ OnDisk(folders[k] \o <<"common", DeclaredInstallDir(ManifestOf(folders[k], id).content)>>)

DirIn(k, id) == folders[k] \o <<"common", DeclaredInstallDir(ManifestOf(folders[k], id).content)>>

\* C18: every entry of the inventory has isInstalled true and a non-empty installDir
\* and comes from a listed manifest whose install directory is declared and exists
\* (a manifest without one contributes nothing); every listed manifest whose install
\* directory is declared and exists has an entry, its own or the one of its dedup key.
C18_InventoryHoldsTheInstalled ==
    ListDone =>
        /\ \A i \in DOMAIN apps :
              /\ apps[i].isInstalled
              /\ apps[i].installDir # NoPath
              /\ \E k \in DOMAIN folders :
                    /\ apps[i].appId \in ListedIds(k)
                    /\ InstalledIn(k, apps[i].appId)
                    /\ apps[i].installDir = DirIn(k, apps[i].appId)
        /\ \A k \in DOMAIN folders : \A id \in ListedIds(k) :
              InstalledIn(k, id) =>
                  \E i \in DOMAIN apps :
                      KeyOf(apps[i].appId, apps[i].installDir) = KeyOf(id, DirIn(k, id))

\* one listed manifest is installed and reported, another declares no directory
C18_Witness ==
    /\ ListDone
    /\ Len(apps) = 1
    /\ \E k \in DOMAIN folders : \E id \in ListedIds(k) :
          /\ ReadableManifest(folders[k], id)
          /\ ~InstalledIn(k, id)

\* the library folder an entry was read from, as a position of the folder list
FolderOf(a) ==
    CHOOSE k \in DOMAIN folders :
        /\ Len(a.installDir) > Len(folders[k])
        /\ SubSeq(a.installDir, 1, Len(folders[k])) = folders[k]

\* the position of the entry's manifest file in the listing of its folder
FileOf(a) ==
    LET files == readdirSync(folders[FolderOf(a)]).files
    IN CHOOSE n \in DOMAIN files : files[n] = ManifestName(a.appId)

\* C19: the inventory follows library-folder order and, within a folder, the order of
\* the directory listing: of two entries the earlier one comes from an earlier folder
\* or from the same folder and an earlier listed manifest file.
C19_InventoryFollowsListingOrder ==
    ListDone =>
        \A i \in DOMAIN apps : \A j \in DOMAIN apps :
            i < j => \/ FolderOf(apps[i]) < FolderOf(apps[j])
                     \/ /\ FolderOf(apps[i]) = FolderOf(apps[j])
                        /\ FileOf(apps[i]) < FileOf(apps[j])

\* two entries of one folder whose listing names appmanifest_730.acf first
C19_Witness ==
    /\ ListDone
    /\ Len(apps) = 2
    /\ FolderOf(apps[1]) = FolderOf(apps[2])
    /\ apps[1].appId = "730"
    /\ apps[2].appId = "440"

----------------------------------------------------------------------------
(* the public operations: failures *)

PublicFailed ==
    /\ pc = "done"
    /\ caller \in {"findSteamLocation", "findSteamApp", "getInstalledSteamApps"}
    /\ result.kind \notin {"ok", "returned"}

\* the kinds of failure an operation lets through, and the kind it wraps others into
AllowedKinds ==
    IF caller = "findSteamApp" THEN {"SteamAppNotFoundError", "SteamNotFoundError"}
    ELSE {"SteamNotFoundError"}

NamedKind == IF caller = "findSteamApp" THEN "SteamAppNotFoundError" ELSE "SteamNotFoundError"

\* message q ends with the whole of message p
EndsWith(q, p) == Len(q) >= Len(p) /\ SubSeq(q, Len(q) - Len(p) + 1, Len(q)) = p

\* C20: a failure of findSteamLocation or getInstalledSteamApps is a SteamNotFoundError,
\* one of findSteamApp a SteamAppNotFoundError or SteamNotFoundError; an error of an
\* allowed kind leaves the operation as it was thrown, and any other failure is wrapped
\* into the operation's kind with the message of the failure inside the new message.
C20_FailuresAreOfTheNamedKinds ==
    PublicFailed =>
        /\ result.kind \in AllowedKinds
        /\ result.thrownKind \in AllowedKinds =>
              /\ result.kind = result.thrownKind
              /\ result.msg = result.thrownMsg
              /\ result.platform = result.thrownPlatform
        /\ result.thrownKind \notin AllowedKinds =>
              /\ result.kind = NamedKind
              /\ result.thrownMsg # <<>>
              /\ result.msg # result.thrownMsg
              /\ EndsWith(result.msg, result.thrownMsg)

\* the inventory fails on a homedir() error, which reaches the caller wrapped
C20_Witness ==
    /\ PublicFailed
    /\ caller = "getInstalledSteamApps"
    /\ result.thrownKind = "SystemError"
    /\ result.kind = "SteamNotFoundError"

----------------------------------------------------------------------------
(* the two forms of the public operations, and the queries after resolution *)

\* the process-list commands of the log
ProcessLog == SelectSeq(log, LAMBDA e : e.strat = "process")

\* the external commands of the log, in the order they were issued
Commands == SelectSeq(log, LAMBDA e : e.op = "exec")

LocationDone == pc = "done" /\ caller = "findSteamLocation"

\* C21: for one platform, filesystem and set of command outcomes, the asynchronous
\* form of findSteamLocation, findSteamApp, getInstalledSteamApps and isSteamRunning
\* gives the value, or the error, the Sync form gives, and issues the same commands
\* and reads in the same order; a call that has ended, in either form, has the
\* result and the log both forms give for the outcomes the log records.
C21_FormsAgree ==
    /\ (pc = "resolved" /\ caller = "findSteamLocation") =>
          \A out \in ProcRuns : \A ps \in PowershellRuns(LocationPath) :
          \A reads \in VersionReads(LocationPath) :
             /\ findSteamLocation_result(out, ps, reads)
                   = findSteamLocationSync_result(out, ps, reads)
             /\ findSteamLocation_log(out, ps, reads) = findSteamLocationSync_log(out, ps, reads)
    /\ (pc = "resolved" /\ caller \in {"findSteamApp", "getInstalledSteamApps"}) =>
          /\ getLibraryFolders(steamPath) = getLibraryFoldersSync(steamPath)
          /\ \A id \in AppIds :
                findSteamAppInLibraries(id, getLibraryFolders(steamPath))
                   = findSteamAppInLibrariesSync(id, getLibraryFoldersSync(steamPath))
          /\ getInstalledSteamAppsFromLibraries(getLibraryFolders(steamPath))
                = getInstalledSteamAppsFromLibrariesSync(getLibraryFoldersSync(steamPath))
    /\ pc = "idle" =>
          \A out \in ProcRuns : /\ isSteamRunning(out) = isSteamRunningSync(out)
                                /\ isSteamRunning_log(out) = isSteamRunningSync_log(out)
    /\ (pc = "done" /\ caller = "isSteamRunning") =>
          \E out \in ProcRuns :
             /\ result.isRunning = isSteamRunning(out)
             /\ result.isRunning = isSteamRunningSync(out)
             /\ log = isSteamRunning_log(out)
             /\ log = isSteamRunningSync_log(out)
    /\ (LocationDone /\ result.kind = "ok") =>
          /\ result.libraryFolders = LocationFolders(getLibraryFolders(steamPath))
          /\ result.libraryFolders = LocationFolders(getLibraryFoldersSync(steamPath))
          /\ \E out \in ProcRuns :
                /\ result.isRunning = isSteamRunning(out)
                /\ result.isRunning = isSteamRunningSync(out)
                /\ ProcessLog = isSteamRunning_log(out)
                /\ ProcessLog = isSteamRunningSync_log(out)

\* the asynchronous findSteamLocation has resolved on Windows, where tasklist printed
\* its INFO line and Steam is reported as not running
C21_Witness ==
    /\ LocationDone /\ form = "async" /\ platform = "win32" /\ result.kind = "ok"
    /\ ~result.isRunning
    /\ \E i \in DOMAIN log : log[i].strat = "process" /\ log[i].out.status = "ok"

\* the version query gave nothing: powershell was not run or failed, and no version
\* file was read with a text that is not blank
NoVersionFound ==
    \A i \in DOMAIN log :
       log[i].strat = "version" =>
          \/ log[i].out.status = "throw"
          \/ log[i].op = "read" /\ log[i].out.text \in {" \n", ""}

\* the process-list command was not run, or it failed
NoProcessAnswer ==
    \A i \in DOMAIN log : log[i].strat = "process" => log[i].out.status = "throw"

\* C22: once the root is resolved findSteamLocation returns a SteamLocation, whatever
\* the queries do: where discovery finds no library folder libraryFolders is empty,
\* where the process-list command fails isRunning is false, and where the version
\* query gives nothing version is absent.
C22_QueriesNeverFailTheCall ==
    (LocationDone /\ steamPath # NoPath) =>
       /\ result.kind = "ok"
       /\ result.thrownKind = "none"
       /\ result.path = LocationPath
       /\ ~OnDisk(join(steamPath, Steamapps)) => result.libraryFolders = <<>>
       /\ (OnDisk(VdfFile(steamPath)) /\ ~vdf.readable) =>
             result.libraryFolders = <<normalize(join(steamPath, Steamapps))>>
       /\ NoProcessAnswer => ~result.isRunning
       /\ NoVersionFound => result.version = Undefined

\* the root was resolved, there is no steamapps folder under it, the process-list
\* command and the powershell query failed and no version file exists
C22_Witness ==
    /\ LocationDone /\ steamPath # NoPath /\ platform = "win32"
    /\ ~OnDisk(join(steamPath, Steamapps))
    /\ \E i \in DOMAIN log : log[i].strat = "process" /\ log[i].out.status = "throw"
    /\ \E i \in DOMAIN log : log[i].strat = "version" /\ log[i].op = "exec"
                                /\ log[i].out.status = "throw"
    /\ result.kind = "ok" /\ result.libraryFolders = <<>> /\ result.version = Undefined

\* the detector's answer in a call that has ended
Detected == (pc = "done" /\ caller = "isSteamRunning") \/ (LocationDone /\ result.kind = "ok")

\* C24: isSteamRunning never raises; on an unsupported platform it returns false and
\* runs no command; where the command fails it returns false; on Windows it returns
\* true exactly where the output holds 'steam.exe', on macOS and Linux exactly where
\* the output has a character that is not white space.
C24_DetectorNeverRaises ==
    /\ (pc = "done" /\ caller = "isSteamRunning") =>
          /\ result.kind = "returned"
          /\ result.thrownKind = "none"
          /\ Len(log) <= 1
          /\ \A i \in DOMAIN log : log[i].op = "exec" /\ log[i].strat = "process"
          /\ platform \notin {"win32", "darwin", "linux"} => log = <<>> /\ ~result.isRunning
          /\ platform \in {"win32", "darwin", "linux"} => Len(log) = 1
    /\ Detected =>
          \A i \in DOMAIN log :
             log[i].strat = "process" =>
                /\ log[i].out.status = "throw" => ~result.isRunning
                /\ (log[i].out.status = "ok" /\ platform = "win32") =>
                      (result.isRunning <=>
                          log[i].out.text = "\"steam.exe\",\"1234\",\"Console\",\"1\",\"123,456 K\"")
                /\ (log[i].out.status = "ok" /\ platform # "win32") =>
                      (result.isRunning <=> log[i].out.text \notin {"", " \n"})

\* the detector was called on its own on Linux and pgrep failed
C24_Witness ==
    /\ pc = "done" /\ caller = "isSteamRunning" /\ platform = "linux"
    /\ Len(log) = 1 /\ log[1].out.status = "throw" /\ ~result.isRunning

\* the kinds of command in the order of the log
CommandKinds == [i \in DOMAIN Commands |-> Commands[i].strat]

\* C28: in one findSteamLocation on Windows the commands are the registry query, then
\* the process-list query, then the version query, each at most once; the last two
\* are issued only once the root is resolved, and a call that fails has issued the
\* registry query alone.
C28_CommandsInOrderAtMostOnce ==
    (platform = "win32" /\ caller = "findSteamLocation") =>
       /\ Len(CommandKinds) <= 3
       /\ CommandKinds = SubSeq(<<"registry", "process", "version">>, 1, Len(CommandKinds))
       /\ Len(CommandKinds) > 1 => steamPath # NoPath /\ pc = "done" /\ result.kind = "ok"
       /\ (pc = "done" /\ result.kind # "ok") => CommandKinds = <<"registry">>
       /\ (pc = "done" /\ result.kind = "ok") => Len(CommandKinds) >= 2

\* the three commands were issued, and the process-list command failed
C28_Witness ==
    /\ platform = "win32" /\ LocationDone
    /\ CommandKinds = <<"registry", "process", "version">>
    /\ Commands[2].out.status = "throw"

----------------------------------------------------------------------------
(* the manifest lookup over several library folders: properties *)

\* the manifest reads of the log
AppReads == SelectSeq(log, LAMBDA e : e.strat = "app")

\* the library folders whose manifest of the requested id exists and can be read
ReadableIn == { k \in DOMAIN folders : ReadableManifest(folders[k], appId) }

\* the library folders whose manifest of the requested id exists and cannot be read
UnreadableIn ==
    { k \in DOMAIN folders : /\ OnDisk(folders[k] \o <<ManifestName(appId)>>)
                             /\ ~readFileSync(folders[k] \o <<ManifestName(appId)>>).readable }

FirstReadable == CHOOSE k \in ReadableIn : \A j \in ReadableIn : k <= j

FindAppSearched == FindAppDone /\ steamPath # NoPath

\* C25: findSteamApp takes its record from the first library folder, in list order,
\* whose manifest of the id exists and can be read: the record's directory and
\* isInstalled are those of that folder, the last manifest read is that folder's, and
\* no manifest of a later folder is read, whether or not a later folder holds an
\* install that the first one lacks.
C25_FirstReadableManifestDecides ==
    (FindAppSearched /\ ReadableIn # {}) =>
        /\ result.kind = "returned"
        /\ Len(apps) = 1
        /\ apps[1].appId = appId
        /\ ReadFrom(apps[1], FirstReadable)
        /\ AppReads # <<>>
        /\ AppReads[Len(AppReads)].path = folders[FirstReadable] \o <<ManifestName(appId)>>
        /\ AppReads[Len(AppReads)].out.status = "ok"
        /\ \A i \in DOMAIN AppReads :
              \E j \in 1..FirstReadable : AppReads[i].path = folders[j] \o <<ManifestName(appId)>>

\* the first folder's manifest declares a directory that is not there, the second
\* folder holds a verified install of the same id
C25_Witness ==
    /\ FindAppSearched /\ Len(folders) = 2 /\ ReadableIn = {1, 2}
    /\ ~InstalledIn(1, appId) /\ InstalledIn(2, appId)
    /\ result.kind = "returned" /\ ~apps[1].isInstalled

\* C26: a manifest that exists and cannot be read does not end the lookup: the next
\* folders are tried and the record of the first readable manifest is returned;
\* findSteamApp fails, with SteamAppNotFoundError, exactly when no library folder has a
\* readable manifest of the id, and every manifest that exists before the one that
\* decides has been read once.
C26_ReadErrorMovesToNextFolder ==
    FindAppSearched =>
        /\ result.kind \in {"returned", "SteamAppNotFoundError"}
        /\ result.kind = "SteamAppNotFoundError" <=> ReadableIn = {}
        /\ result.kind = "returned" <=> ReadableIn # {}
        /\ \A k \in UnreadableIn :
              (ReadableIn = {} \/ k < FirstReadable) =>
                 \E i \in DOMAIN AppReads :
                    /\ AppReads[i].path = folders[k] \o <<ManifestName(appId)>>
                    /\ AppReads[i].out.status = "throw"
        /\ (ReadableIn # {} /\ \E k \in UnreadableIn : k < FirstReadable) =>
              /\ Len(apps) = 1
              /\ ReadFrom(apps[1], FirstReadable)

\* the manifest of the first folder cannot be read and the second folder's record is
\* returned
C26_Witness ==
    /\ FindAppSearched /\ Len(folders) = 2
    /\ UnreadableIn = {1} /\ ReadableIn = {2}
    /\ result.kind = "returned" /\ InstalledIn(2, appId) /\ apps[1].isInstalled

AppCall == caller \in {"findSteamApp", "getInstalledSteamApps"}

\* C29: with a steamPath argument findSteamApp and getInstalledSteamApps resolve
\* nothing: no registry query, no probe of a conventional path, no
\* SteamNotFoundError; where the given root has no steamapps folder (the root itself
\* may be missing) getInstalledSteamApps returns the empty list and findSteamApp fails
\* with SteamAppNotFoundError.
C29_GivenRootIsNotResolved ==
    (AppCall /\ root # NoPath) =>
        /\ pc \in {"resolved", "done"}
        /\ steamPath = root
        /\ \A i \in DOMAIN log : log[i].op = "read" /\ log[i].strat = "app"
        /\ result.kind # "SteamNotFoundError"
        /\ result.thrownKind # "SteamNotFoundError"
        /\ (pc = "done" /\ ~OnDisk(join(root, Steamapps))) =>
              /\ folders = <<>>
              /\ apps = <<>>
              /\ caller = "getInstalledSteamApps" => result.kind = "returned"
              /\ caller = "findSteamApp" => result.kind = "SteamAppNotFoundError"

\* findSteamApp was given a root that is not on disk
C29_Witness ==
    /\ FindAppDone /\ root # NoPath /\ ~OnDisk(root) /\ ~OnDisk(join(root, Steamapps))
    /\ result.kind = "SteamAppNotFoundError" /\ log = <<>>

\* C30: on one filesystem and root, findSteamApp finds every id that
\* getInstalledSteamApps lists and returns a record with that id; every record
\* findSteamApp returns has the requested id.
C30_ListedAppsAreFound ==
    /\ ListDone =>
          \A i \in DOMAIN apps :
             LET r == findSteamAppInLibrariesSync(apps[i].appId, getLibraryFoldersSync(steamPath))
             IN /\ apps[i].appId \in AppIds
                /\ r.found
                /\ r.app.appId = apps[i].appId
    /\ (FindAppDone /\ result.kind = "returned") => Len(apps) = 1 /\ apps[1].appId = appId

\* the inventory holds an app that only the second library folder has
C30_Witness ==
    /\ ListDone /\ Len(folders) = 2 /\ Len(apps) = 1 /\ apps[1].appId = "440"
    /\ ~OnDisk(folders[1] \o <<ManifestName("440")>>)
    /\ InstalledIn(2, "440")

----------------------------------------------------------------------------
(* the inventory scan: properties *)

ScanEnded == pc = "done" /\ caller = "getInstalledSteamApps" /\ steamPath # NoPath

\* C27: the scan of getInstalledSteamApps never raises; a folder whose listing throws
\* contributes nothing and every other folder contributes every installed app it
\* lists; a listed file without a numeric id and a manifest that cannot be read give
\* no entry, and the other files of that listing give theirs.
C27_ScanSkipsOnlyWhatFails ==
    ScanEnded =>
        /\ result.kind = "returned"
        /\ result.thrownKind = "none"
        /\ \A k \in DOMAIN folders :
              readdirSync(folders[k]).ok =>
                 \A id \in ListedIds(k) :
                    InstalledIn(k, id) =>
                       \E i \in DOMAIN apps : /\ apps[i].appId = id
                                              /\ apps[i].isInstalled
                                              /\ KeyOf(id, apps[i].installDir) = KeyOf(id, DirIn(k, id))
        /\ \A i \in DOMAIN apps :
              /\ apps[i].appId \in AppIds
              /\ \E k \in DOMAIN folders :
                    /\ readdirSync(folders[k]).ok
                    /\ apps[i].appId \in ListedIds(k)
                    /\ InstalledIn(k, apps[i].appId)
                    /\ apps[i].installDir = DirIn(k, apps[i].appId)

\* the listing of the first folder throws; the second folder lists a file without a
\* numeric id, then a manifest that cannot be read, then an installed app, which is
\* the one entry returned
C27_Witness ==
    /\ ScanEnded /\ Len(folders) = 2
    /\ ~readdirSync(folders[1]).ok
    /\ readdirSync(folders[2]).ok
    /\ readdirSync(folders[2]).files
          = <<"appmanifest_abc.acf", "appmanifest_730.acf", "appmanifest_440.acf">>
    /\ ~ReadableManifest(folders[2], "730")
    /\ InstalledIn(2, "440")
    /\ Len(apps) = 1 /\ apps[1].appId = "440"

----------------------------------------------------------------------------
(* successive calls: properties *)

\* the root a first call resolves on Windows in the present state: the registry value
\* where it verifies, else the first conventional path that verifies
FreshRoot ==
    LET ok == { i \in DOMAIN commonPaths : WinVerified(normalize(commonPaths[i])) }
    IN IF regOut.status = "value" /\ WinVerified(normalize(regOut.path))
       THEN normalize(regOut.path)
       ELSE IF ok = {} THEN NoPath
       ELSE normalize(commonPaths[CHOOSE i \in ok : \A j \in ok : i <= j])

\* the root of the call that has ended: the argument, or the one resolved now
RootNow == IF root # NoPath THEN root ELSE FreshRoot

\* the library folders discovery gives in the present state from an empty list
FoldersNow == getLibraryFoldersFrom(<<>>, RootNow)

\* C23: whatever calls and changes of the filesystem or the registry came before, a
\* call that has ended has the result a first call gives in the present state: the
\* root is the one resolved now (or SteamNotFoundError where none is), the library
\* folders are those on disk now, and the record or the inventory is read from the
\* manifests that are there now; nothing of an earlier call is left in it.
C23_NothingIsCached ==
    (pc = "done" /\ caller \in {"findSteamLocation", "findSteamApp", "getInstalledSteamApps"}) =>
        /\ RootNow = NoPath <=> result.kind = "SteamNotFoundError"
        /\ RootNow # NoPath =>
              /\ steamPath = RootNow
              /\ caller = "findSteamLocation" =>
                    /\ result.kind = "ok"
                    /\ result.path = normalize(RootNow)
                    /\ result.libraryFolders = LocationFolders(FoldersNow)
                    /\ \A k \in DOMAIN result.libraryFolders : OnDisk(result.libraryFolders[k])
              /\ caller # "findSteamLocation" =>
                    /\ folders = FoldersNow
                    /\ \A k \in DOMAIN folders : OnDisk(folders[k])
                    /\ \A j, k \in DOMAIN folders : j # k => folders[j] # folders[k]
              /\ caller = "findSteamApp" =>
                    LET r == findSteamAppInLibrariesSync(appId, FoldersNow)
                    IN /\ r.found <=> result.kind = "returned"
                       /\ ~r.found <=> result.kind = "SteamAppNotFoundError"
                       /\ r.found => apps = <<r.app>>
                       /\ r.found <=> \E k \in DOMAIN FoldersNow :
                                         OnDisk(FoldersNow[k] \o <<ManifestName(appId)>>)
              /\ caller = "getInstalledSteamApps" =>
                    /\ result.kind = "returned"
                    /\ apps = getInstalledSteamAppsFromLibrariesSync(FoldersNow)
                    /\ \A i \in DOMAIN apps : OnDisk(apps[i].installDir)

\* an earlier call saw two library folders; the library was then removed and the
\* inventory of this call is empty
C23_Witness ==
    /\ pc = "done" /\ caller = "getInstalledSteamApps" /\ calls >= 1
    /\ prevFolders.valid /\ Len(prevFolders.list) = 2 /\ prevFolders.root = SteamRoot
    /\ steamPath = SteamRoot
    /\ folders = <<F1>>
    /\ apps = <<>>
====
